---- MODULE Spec2Model ----
(***************************************************************************)
(* JETI EX-Bus telemetry bridge (chiefenne/JETI_EX_BUS).                   *)
(*                                                                         *)
(* core0 runs Jeti/ExBus_optimized.py ExBus.run_forever: the byte-wise     *)
(* receive state machine, the CRC16 check, the dispatch and the frame      *)
(* sender sendTelemetry.  core1 runs Jeti/Ex.py Ex.run_forever: the        *)
(* producer that reads a sensor, builds an EX-Bus data frame and publishes *)
(* it under the shared lock.  Byte sequences are sequences of 0..255;      *)
(* Python index i is TLA+ index i+1.                                       *)
(***************************************************************************)
EXTENDS Integers, Sequences, FiniteSets, TLC

VARIABLES
    state,              \* run_forever: state
    buffer,             \* run_forever: buffer (bytearray)
    packet_length,      \* run_forever: packet_length
    channel,            \* ExBus.channel, set by getChannelData
    pc0,                \* position of core0 (receive loop / inside sendTelemetry)
    packetID,           \* sendTelemetry: argument packetID
    frame_count,        \* ExBus.frame_count
    dev_ready_local,    \* sendTelemetry: local exbus_device_ready
    data_ready_local,   \* sendTelemetry: local exbus_data_ready
    n_labels_local,     \* sendTelemetry: local n_labels
    telemetry,          \* sendTelemetry: local telemetry (<<>> before selection)
    uart,               \* the bytes of the most recent serial.write
    lock,               \* the _thread lock: "free", "core0" or "core1"
    exbus_data,         \* Ex.exbus_data (<<>> while the attribute is unset)
    exbus_data_ready,   \* Ex.exbus_data_ready
    exbus_device_ready, \* Ex.exbus_device_ready
    dev_labels_units,   \* Ex.dev_labels_units
    n_labels,           \* Ex.n_labels
    pc1,                \* position of core1 (Ex.run_forever)
    sensor_idx,         \* position of the cycler generator Ex.cycle_sensors
    exbus_data_local,   \* Ex.run_forever: exbus_data_local
    main_thread_running, \* main.py: the shared flag main_thread_running
    productID,          \* Sensors.productID, as read by Ex.Header
    deviceID,           \* Sensors.deviceID, as read by Ex.Header
    ex_type,            \* ex_frame: argument frametype of the last call (-1: none)
    ex_body,            \* ex_frame: data, the body built by Data or Text
    ex_returned,        \* ex_frame: the packet returned by the last call
    ex_flipped,         \* that packet with one bit flipped on the wire (<<>>: none)
    crc_in,             \* the byte sequence handed to the CRC functions
    crc16_out,          \* crc16_ccitt(crc_in, len(crc_in)) (-1: not called)
    crc8_out,           \* crc8(crc_in) (-1: not called)
    crc8_viper_out,     \* crc8_viper(crc_in, len(crc_in)) (-1: not called)
    crc_framed,         \* crc_in followed by its CRC16, low byte first (<<>>: none)
    crc_wire,           \* crc_framed with one bit flipped on the wire (<<>>: none)
    enc_in,             \* Ex.Data: the entry under encoding (value as num/den, data_type, precision)
    enc_scaled,         \* Ex.Data: value_scaled, as handed to EncodeValue
    enc_out,            \* Ex.Data: the bytes returned for the entry (<<>>: none)
    enc_error,          \* Ex.Data: the exception the call ended with ("none": it returned)
    bld_call,           \* the call of Ex.Header or Ex.Message under observation
    bld_out,            \* the bytes that call returned (<<>>: none)
    bld_error,          \* the exception that call ended with ("none": it returned)
    dec_packet,         \* ExBusPacketDecoder.packet
    dec_out,            \* the attributes set by ExBusPacketDecoder.decode
    \* ---- observation variables (history of what the code just did) ----
    ev,                 \* branch of run_forever taken for the last byte read
    call,               \* handler invoked for the last byte read ("none" if none)
    wr,                 \* a serial.write happened since the last byte was read
    sel,                \* branch of sendTelemetry's selection taken by the current request
    ready_at_acquire,   \* value of Ex.exbus_data_ready when sendTelemetry got the lock
    unlocked,           \* shared-state accesses made without holding the lock
    pubs,               \* number of publications made by the producer
    published,          \* published[p]: the frame the producer stored as publication p
    reads,              \* reads[k]: the sensor read by the k-th iteration of Ex.run_forever
    slot_pub,           \* publication number of the frame in Ex.exbus_data
    tel_pub,            \* publication number of the frame in sendTelemetry's telemetry
    uart_pub,           \* publication number of the last data frame written (0: none)
    served,             \* served[p]: how often publication p was written to the UART
    feed,               \* what the receiver (master) is sending: see InitResync
    ndispatch,          \* number of handler invocations counted while feed is scripted
    right,              \* every counted invocation was for the scripted frame
    ex_attrs,           \* attributes of the Ex object assigned so far, of dev_labels_units and n_labels
    raised,             \* exception that ended ExBus.run_forever ("none" if none)
    old_state,          \* Jeti/ExBus.py run_forever: state
    exbusBuffer,        \* Jeti/ExBus.py: self.exbusBuffer, a list of characters (code points)
    old_packet_length,  \* Jeti/ExBus.py: self.packet_length
    old_error,          \* Jeti/ExBus.py: exception that ended run_forever ("none" if none)
    old_ev              \* Jeti/ExBus.py: what the last pass of the loop did

vars == <<state, buffer, packet_length, channel, pc0, packetID, frame_count,
          dev_ready_local, data_ready_local, n_labels_local, telemetry, uart,
          lock, exbus_data, exbus_data_ready, exbus_device_ready,
          dev_labels_units, n_labels, pc1, sensor_idx, exbus_data_local,
          main_thread_running, ev, call, wr, sel, ready_at_acquire, unlocked, pubs, published,
          reads,
          slot_pub, tel_pub, uart_pub, served, feed, ndispatch, right,
          productID, deviceID, ex_type, ex_body, ex_returned, ex_flipped,
          crc_in, crc16_out, crc8_out, crc8_viper_out, crc_framed, crc_wire,
          enc_in, enc_scaled, enc_out, enc_error, bld_call, bld_out, bld_error,
          dec_packet, dec_out, ex_attrs, raised,
          old_state, exbusBuffer, old_packet_length, old_error, old_ev>>

core0vars == <<state, buffer, packet_length, channel, pc0, packetID, frame_count,
               dev_ready_local, data_ready_local, n_labels_local, telemetry, uart,
               ev, call, wr, sel, ready_at_acquire, tel_pub, uart_pub, served>>

core1vars == <<pc1, sensor_idx, exbus_data_local, pubs, published, reads>>

sharedvars == <<exbus_data, exbus_data_ready, exbus_device_ready,
                dev_labels_units, n_labels, slot_pub>>

envvars == <<feed, ndispatch, right>>

mainvars == <<main_thread_running>>

sensorvars == <<productID, deviceID>>

codecvars == <<ex_type, ex_body, ex_returned, ex_flipped>>

crcvars == <<crc_in, crc16_out, crc8_out, crc8_viper_out, crc_framed, crc_wire>>

encvars == <<enc_in, enc_scaled, enc_out, enc_error>>

buildvars == <<bld_call, bld_out, bld_error>>

decvars == <<dec_packet, dec_out>>

startvars == <<ex_attrs, raised>>

oldvars == <<old_state, exbusBuffer, old_packet_length, old_error, old_ev>>

\* the call records of the library functions that are checked on their own
libvars == <<crcvars, encvars, buildvars, decvars, startvars, oldvars>>

-----------------------------------------------------------------------------
(* Bounds of the model *)

\* number of telemetry requests handled after the announcement phase
MaxDataRequests == 2

\* number of publications the producer makes
MaxPubs == 2

\* ExBus.label_frames is set to 100 in ExBus.__init__; the announcement
\* phase is scaled down here (long enough for the three announcement
\* frames to come round again), the comparisons against it are the code's
label_frames == 4

MaxFrameCount == label_frames + MaxDataRequests

-----------------------------------------------------------------------------
(* Bit operations on naturals *)

\* Python's ^, & and | on integers 0 <= a, b < 2^32, computed on the two
\* halves of a w-bit word (w = 32, 16, 8, 4, 2, 1)
RECURSIVE XorW(_, _, _)
XorW(a, b, w) ==
    IF a = 0 THEN b
    ELSE IF b = 0 THEN a
    ELSE IF w = 1 THEN (a + b) % 2
    ELSE LET m == 2 ^ (w \div 2)
         IN  XorW(a % m, b % m, w \div 2) + m * XorW(a \div m, b \div m, w \div 2)

BitXor(a, b) == XorW(a, b, 32)

RECURSIVE AndW(_, _, _)
AndW(a, b, w) ==
    IF a = 0 \/ b = 0 THEN 0
    ELSE IF w = 1 THEN a * b
    ELSE LET m == 2 ^ (w \div 2)
         IN  AndW(a % m, b % m, w \div 2) + m * AndW(a \div m, b \div m, w \div 2)

BitAnd(a, b) == AndW(a, b, 32)

RECURSIVE OrW(_, _, _)
OrW(a, b, w) ==
    IF a = 0 THEN b
    ELSE IF b = 0 THEN a
    ELSE IF w = 1 THEN 1
    ELSE LET m == 2 ^ (w \div 2)
         IN  OrW(a % m, b % m, w \div 2) + m * OrW(a \div m, b \div m, w \div 2)

BitOr(a, b) == OrW(a, b, 32)

Min(a, b) == IF a < b THEN a ELSE b
Max(a, b) == IF a > b THEN a ELSE b

\* Python s[a:b] for 0 <= a, 0 <= b (clipped to the length of s)
PySlice(s, a, b) == SubSeq(s, a + 1, Min(b, Len(s)))

\* Python s[a:] for 0 <= a
PyFrom(s, a) == SubSeq(s, a + 1, Len(s))

\* Python s[:-2]
PyDropLast2(s) == SubSeq(s, 1, Len(s) - 2)

\* Python s[-2:]
PyLast2(s) == SubSeq(s, Max(1, Len(s) - 1), Len(s))

-----------------------------------------------------------------------------
(* Jeti/CRC16.py *)

\* lines 18-22: j passes of the inner loop "for j in range(8)"
crc16_bits[crc \in Nat, j \in 0..8] ==
    IF j = 0 THEN crc
    ELSE crc16_bits[(IF crc % 2 > 0 THEN BitXor(crc \div 2, 33800) \* 0x8408
                     ELSE crc \div 2), j - 1]

\* crc16_ccitt with the register starting at 0xFFFF
crc16_ccitt_ffff(packet, length) ==
    LET run[crc \in Nat, lo \in Nat, hi \in Nat] ==
            IF lo > hi THEN crc
            ELSE IF lo = hi THEN crc16_bits[BitXor(crc, packet[lo]), 8]
            ELSE run[run[crc, lo, (lo + hi) \div 2], ((lo + hi) \div 2) + 1, hi]
    IN  run[65535, 1, length]

\* lines 15-24; run[crc, lo, hi] is the register after the passes lo..hi of
\* "for i in range(length)" that start with the register at crc (the passes
\* are taken half by half, in the loop's order)
crc16_ccitt(packet, length) ==
    LET run[crc \in Nat, lo \in Nat, hi \in Nat] ==
            IF lo > hi THEN crc
            ELSE IF lo = hi THEN crc16_bits[BitXor(crc, packet[lo]), 8]
            ELSE run[run[crc, lo, (lo + hi) \div 2], ((lo + hi) \div 2) + 1, hi]
    IN  run[0, 1, length]

\* int.to_bytes(2, 'little')
to_bytes_2_little(n) == <<n % 256, (n \div 256) % 256>>

\* int.from_bytes(s, 'big')
from_bytes_big(s) ==
    LET acc[k \in 0..Len(s)] == IF k = 0 THEN 0 ELSE 256 * acc[k - 1] + s[k]
    IN  acc[Len(s)]

\* int.from_bytes(s, 'little')
RECURSIVE from_bytes_little(_)
from_bytes_little(s) ==
    IF s = <<>> THEN 0 ELSE s[1] + 256 * from_bytes_little(Tail(s))

\* variant of checkCRC: only the low checksum byte is compared
checkCRC_lowbyte(packet) ==
    LET crc_calculated == crc16_ccitt(PyDropLast2(packet), Len(PyDropLast2(packet)))
    IN  PyLast2(packet) # <<>> /\ crc_calculated % 256 = PyLast2(packet)[1]

\* ExBus.checkCRC
checkCRC(packet) ==
    LET crc_calculated == crc16_ccitt(PyDropLast2(packet), Len(PyDropLast2(packet)))
        crc_received   == from_bytes_little(PyLast2(packet))
    IN  crc_calculated = crc_received

-----------------------------------------------------------------------------
(* Jeti/CRC8.py *)

\* lines 58-62: i passes of the inner loop "for i in range(8)"
crc8_bits[crc_u \in Nat, i \in 0..8] ==
    IF i = 0 THEN crc_u
    ELSE crc8_bits[(IF BitAnd(crc_u, 128) # 0 THEN BitXor(7, crc_u * 2)
                    ELSE crc_u * 2) % 256, i - 1]

\* update_crc without the mask to 8 bits of line 32
update_crc_unmasked(crc_element, crc_seed) ==
    LET pass[crc_u \in Nat, i \in 0..8] ==
            IF i = 0 THEN crc_u
            ELSE pass[IF BitAnd(crc_u, 128) # 0 THEN BitXor(7, crc_u * 2)
                      ELSE crc_u * 2, i - 1]
    IN  pass[BitXor(crc_element, crc_seed), 8]

\* lines 17-34: update_crc(crc_element, crc_seed); pass[crc_u, i] is crc_u
\* after i passes of "for i in range(8)"
update_crc(crc_element, crc_seed) ==
    LET pass[crc_u \in Nat, i \in 0..8] ==
            IF i = 0 THEN crc_u
            ELSE pass[BitAnd(IF BitAnd(crc_u, 128) # 0 THEN BitXor(7, crc_u * 2)
                             ELSE crc_u * 2, 255), i - 1]
    IN  pass[BitXor(crc_element, crc_seed), 8]

\* lines 36-43: crc8(packet); run[crc_up, lo, hi] is crc_up after the passes
\* lo..hi of "for i in range(0, len(packet))" that start with crc_up
crc8(packet) ==
    LET run[crc_up \in Nat, lo \in Nat, hi \in Nat] ==
            IF lo > hi THEN crc_up
            ELSE IF lo = hi THEN update_crc(packet[lo], crc_up)
            ELSE run[run[crc_up, lo, (lo + hi) \div 2], ((lo + hi) \div 2) + 1, hi]
    IN  run[0, 1, Len(packet)]

\* lines 49-66; run[crc_up, lo, hi] is crc_up after the passes lo..hi of
\* "for i in range(length)" that start with crc_up (taken half by half, in
\* the loop's order)
crc8_viper(packet, length) ==
    LET run[crc_up \in Nat, lo \in Nat, hi \in Nat] ==
            IF lo > hi THEN crc_up
            ELSE IF lo = hi THEN crc8_bits[BitXor(packet[lo], crc_up), 8]
            ELSE run[run[crc_up, lo, (lo + hi) \div 2], ((lo + hi) \div 2) + 1, hi]
    IN  run[0, 1, length]

-----------------------------------------------------------------------------
(* Jeti/Ex.py: the EX packet and the EX-Bus telemetry frame *)

\* ustruct.pack('B', x) / pack('b', x) on MicroPython: the low 8 bits
pack_B(x) == x % 256

\* byte k of a viper int in two's complement: (x >> 8*k) & 0xFF
ByteOf(x, k) == (x \div (256 ^ k)) % 256

\* Sensors.__init__ line 76: the literal b'\x00a4' is the three bytes
\* 0x00, 'a', '4'
productID_literal == <<0, 97, 52>>

\* the device id of the configuration, two bytes
deviceID_config == <<1, 0>>

\* the sensors' telemetry metadata (configuration data read at start-up)
telemetry_metadata ==
    [l \in {"DEVICE", "RPM", "VOLT"} |->
        CASE l = "DEVICE" -> [id |-> 0, description |-> <<69, 88>>, unit |-> <<>>,
                              data_type |-> 0, precision |-> 0]
          [] l = "RPM"    -> [id |-> 1, description |-> <<82>>, unit |-> <<114>>,
                              data_type |-> 1, precision |-> 0]
          [] l = "VOLT"   -> [id |-> 2, description |-> <<85>>, unit |-> <<86>>,
                              data_type |-> 1, precision |-> 1]]

\* Ex.Header with the overhead taken as 5 (the CRC8 byte left uncounted)
Header_len5(frametype, length) ==
    LET telemetry_type   == frametype * 64
        telemetry_length == length + 5
        type_length      == BitOr(telemetry_type, telemetry_length)
    IN  <<15, pack_B(type_length)>> \o productID \o deviceID \o <<0>>

\* Ex.Header
Header(frametype, length) ==
    LET telemetry_type   == frametype * 64
        telemetry_length == length + 6
        type_length      == BitOr(telemetry_type, telemetry_length)
    IN  <<15, pack_B(type_length)>> \o productID \o deviceID \o <<0>>

\* Ex.EncodeValue with the sign bit set for every value that is not positive
EncodeValue_signle(value_scaled, dataType, precision) ==
    LET sign == IF value_scaled <= 0 THEN 1 ELSE 0
        b0   == ByteOf(value_scaled, 0)
        b1   == ByteOf(value_scaled, 1)
        b2   == ByteOf(value_scaled, 2)
        b3   == ByteOf(value_scaled, 3)
        top(x) == BitOr(BitOr(BitAnd(x, 31), sign * 128), precision * 32)
    IN  CASE dataType = 0 -> <<pack_B(top(b0))>>
          [] dataType = 1 -> <<pack_B(b0), pack_B(top(b1))>>
          [] dataType = 4 -> <<pack_B(b0), pack_B(b1), pack_B(top(b2))>>
          [] dataType = 5 -> <<pack_B(b0), pack_B(b1), pack_B(BitOr(b2, sign * 128))>>
          [] dataType = 8 -> <<pack_B(b0), pack_B(b1), pack_B(b2), pack_B(top(b3))>>
          [] dataType = 9 -> <<pack_B(b0), pack_B(b1), pack_B(b2), pack_B(b3)>>

\* Ex.EncodeValue; ustruct.pack('b', x) on MicroPython stores the low 8 bits
EncodeValue(value_scaled, dataType, precision) ==
    LET sign == IF value_scaled < 0 THEN 1 ELSE 0
        b0   == ByteOf(value_scaled, 0)
        b1   == ByteOf(value_scaled, 1)
        b2   == ByteOf(value_scaled, 2)
        b3   == ByteOf(value_scaled, 3)
        top(x) == BitOr(BitOr(BitAnd(x, 31), sign * 128), precision * 32)
    IN  CASE dataType = 0 -> <<pack_B(top(b0))>>
          [] dataType = 1 -> <<pack_B(b0), pack_B(top(b1))>>
          [] dataType = 4 -> <<pack_B(b0), pack_B(b1), pack_B(top(b2))>>
          [] dataType = 5 -> <<pack_B(b0), pack_B(b1), pack_B(BitOr(b2, sign * 128))>>
          [] dataType = 8 -> <<pack_B(b0), pack_B(b1), pack_B(b2), pack_B(top(b3))>>
          [] dataType = 9 -> <<pack_B(b0), pack_B(b1), pack_B(b2), pack_B(b3)>>

\* Ex.Data lines 293-294 for the value num/den (den > 0):
\* mult = -1 if value < 0 else 1; int(value * 10**precision + mult * 0.5),
\* where int() drops the fraction (rounds towards zero); the arithmetic is
\* taken as exact
Scale(num, den, precision) ==
    LET mult  == IF num < 0 THEN -1 ELSE 1
        twice == 2 * num * (10 ^ precision) + mult * den
    IN  IF twice >= 0 THEN twice \div (2 * den)
        ELSE 0 - ((0 - twice) \div (2 * den))

\* Ex.Data lines 284-297: the bytes added for one entry of the dictionary
DataEntry(telemetry_info, num, den) ==
    LET id           == telemetry_info.id * 16
        data_type    == telemetry_info.data_type
        value_scaled == Scale(num, den, telemetry_info.precision)
    IN  <<pack_B(BitOr(id, data_type))>>
            \o EncodeValue(value_scaled, data_type, telemetry_info.precision)

\* Ex.Data for a dictionary with the single entry {label: value}, value an
\* integer
Data(label, value) == DataEntry(telemetry_metadata[label], value, 1)

\* Ex.Text
Text(label) ==
    LET meta_label  == telemetry_metadata[label]
        description == meta_label.description
        unit        == meta_label.unit
    IN  <<pack_B(meta_label.id), pack_B(BitOr(Len(description) * 8, Len(unit)))>>
            \o description \o unit

\* Ex.Message(message, msg_class), lines 333-355. Line 338 rebinds the
\* parameter message to an empty bytearray, so the text passed in is lost:
\* line 342 appends the type byte 0, line 351 the byte msg_class << 5 | 1
\* (len(message) is 1 there), and line 354 iterates over the bytearray, whose
\* elements are ints: ord() of an int raises TypeError
Message(message_arg, msg_class) ==
    LET message_338 == <<>>
        message_342 == message_338 \o <<pack_B(0)>>
        message_351 == message_342
                          \o <<pack_B(BitOr(msg_class * 32, Len(message_342)))>>
    IN  IF Len(message_351) > 0
        THEN [error |-> "TypeError", out |-> <<>>]
        ELSE [error |-> "none", out |-> message_351]

\* Ex.ex_frame with the crc8 taken over the whole packet, identifier included
ex_frame_crc_all(frametype, body) ==
    LET header    == Header(frametype, Len(body))
        ex_packet == header \o body
        crc8_int  == crc8_viper(ex_packet, Len(ex_packet))
    IN  ex_packet \o <<pack_B(crc8_int)>>

\* Ex.ex_frame, given the body built by Data or Text: header, body, crc8
ex_frame(frametype, body) ==
    LET header    == Header(frametype, Len(body))
        ex_packet == header \o body
        crc8_int  == crc8_viper(PyFrom(ex_packet, 1), Len(PyFrom(ex_packet, 1)))
    IN  ex_packet \o <<pack_B(crc8_int)>>

\* Ex.exbus_frame with 0x01 in the place of the packet id
exbus_frame_id1(ex_packet) ==
    LET len_ex == Len(ex_packet)
    IN  <<59, 1>> \o <<pack_B(len_ex + 8)>> \o <<1>> \o <<58>>
            \o <<pack_B(len_ex)>> \o ex_packet

\* Ex.exbus_frame with the message length taken as len_ex + 6
exbus_frame_len6(ex_packet) ==
    LET len_ex == Len(ex_packet)
    IN  <<59, 1>> \o <<pack_B(len_ex + 6)>> \o <<0>> \o <<58>>
            \o <<pack_B(len_ex)>> \o ex_packet

\* Ex.exbus_frame, given the EX packet built by ex_frame
exbus_frame(ex_packet) ==
    LET len_ex == Len(ex_packet)
    IN  <<59, 1>> \o <<pack_B(len_ex + 8)>> \o <<0>> \o <<58>>
            \o <<pack_B(len_ex)>> \o ex_packet

\* the label list built in Ex.__init__: 'DEVICE' first, then the sensors' labels
labels == <<"DEVICE", "RPM", "VOLT">>

\* the sensors returned by sensors.get_sensors(), by category
Sensors == <<"RPM", "VOLTAGE">>

\* Utils/round_robin.py cycler with the generator moved on by two places
cycler_advance_skip(idx, n) == (idx + 2) % n

\* Utils/round_robin.py cycler, lines 13-15: the generator yields list[idx],
\* then stands at the next element, or at the first one again after the last
\* ("while list" starts the for loop anew)
cycler_advance(idx, n) == (idx + 1) % n

\* the readings a sensor's read_jeti can leave in current_sensor.rpm: the
\* reading rises by one with each publication, so that the frames of two
\* publications differ
SensorValues == {pubs + 1}

-----------------------------------------------------------------------------
(* Jeti/ExBus_optimized.py: ExBus.run_forever, the receive state machine *)

STATE_HEADER_1 == 0
STATE_HEADER_2 == 1
STATE_LENGTH == 2
STATE_END == 3

\* line 71: c in [b'\x3e', b'\x3d']
IsHeader1(c) == c \in {62, 61}

\* variant of IsHeader2: only the sub-header 0x01 is accepted
IsHeader2_only01(c) == c = 1

\* line 76: c in [b'\x01', b'\x03']
IsHeader2(c) == c \in {1, 3}

\* variant of LengthTooLong: the bound is off by one
LengthTooLong_61(plen) == plen > 61

\* line 83: packet_length > 60
LengthTooLong(plen) == plen > 60

\* variant of BufferOverrun: the bound is off by one
BufferOverrun_61(buf) == Len(buf) > 61

\* line 89: len(buffer) > 60
BufferOverrun(buf) == Len(buf) > 60

\* line 96
IsChannelData(buf) == PySlice(buf, 0, 1) = <<62>> /\ PySlice(buf, 4, 5) = <<49>>

\* variant of IsTelemetryRequest: the sub-header byte is not looked at
IsTelemetryRequest_anysub(buf) ==
    PySlice(buf, 0, 1) = <<61>> /\ PySlice(buf, 4, 5) = <<58>>

\* variant of IsTelemetryRequest: the JetiBox identifier 0x3B is taken too
IsTelemetryRequest_or3B(buf) ==
    PySlice(buf, 0, 2) = <<61, 1>> /\ PySlice(buf, 4, 5) \in {<<58>>, <<59>>}

\* line 98
IsTelemetryRequest(buf) == PySlice(buf, 0, 2) = <<61, 1>> /\ PySlice(buf, 4, 5) = <<58>>

\* line 100
IsJetiBoxRequest(buf) == PySlice(buf, 0, 2) = <<61, 1>> /\ PySlice(buf, 4, 5) = <<59>>

\* line 99: the argument buffer[3:4] handed to sendTelemetry
RequestID(buf) == PySlice(buf, 3, 4)

\* ExBus.getChannelData: the dictionary self.channel
getChannelData(buf) ==
    LET num_channels == buf[6] \div 2
    IN  [i \in 0..(num_channels - 1) |-> PySlice(buf, 6 + i * 2, 6 + i * 2 + 2)]

\* The bytes serial.read(1) may return, by the parser's position.  Frames of
\* declared length 8 carry the packet id 6 (the stored frames hold 0 there)
\* and every sub-type identifier; the long frames (a
\* declared length of 3 never completes, 60 is the longest accepted) are
\* offered after the header 3D 01 and carry zeros.  A telemetry request is
\* offered with the payload length 0 and with the payload length 1, which
\* does not fit its total length.  The two checksum positions of a frame
\* offer the matching CRC16 byte and a wrong one.
RxBytes ==
    CASE state = STATE_HEADER_1 -> {0, 1, 61, 62}
      [] state = STATE_HEADER_2 -> {0, 1, 3, 61}
      [] state = STATE_LENGTH   -> IF buffer = <<61, 1>> THEN {3, 8, 60, 61}
                                                          ELSE {8, 61}
      [] state = STATE_END ->
            LET n == Len(buffer)
            IN  IF n = packet_length - 2
                    THEN {0, crc16_ccitt(buffer, n) % 256}
                ELSE IF n = packet_length - 1
                    THEN {0, crc16_ccitt(buffer, n - 1) \div 256}
                ELSE IF n = 3 /\ packet_length = 8 THEN {6}
                ELSE IF n = 4 /\ packet_length = 8 THEN {0, 49, 58, 59}
                ELSE IF buffer = <<61, 1, 8, 6, 58>> THEN {0, 1}
                ELSE {0}

core0idle == <<packetID, frame_count, dev_ready_local, data_ready_local,
               n_labels_local, telemetry, uart, sel, ready_at_acquire,
               tel_pub, uart_pub, served>>

\* lines 70-73
RxHeader1(c) ==
    /\ state = STATE_HEADER_1
    /\ IF IsHeader1(c)
          THEN /\ buffer' = <<c>>
               /\ state' = STATE_HEADER_2
               /\ ev' = "header1"
          ELSE /\ UNCHANGED <<buffer, state>>
               /\ ev' = "ignored"
    /\ call' = "none"
    /\ pc0' = "recv"
    /\ UNCHANGED <<packet_length, channel>>
    /\ UNCHANGED core0idle

\* lines 75-78
RxHeader2(c) ==
    /\ state = STATE_HEADER_2
    /\ IF IsHeader2(c)
          THEN /\ buffer' = Append(buffer, c)
               /\ state' = STATE_LENGTH
               /\ ev' = "header2"
          ELSE /\ UNCHANGED <<buffer, state>>
               /\ ev' = "h2_mismatch"
    /\ call' = "none"
    /\ pc0' = "recv"
    /\ UNCHANGED <<packet_length, channel>>
    /\ UNCHANGED core0idle

\* lines 80-86
RxLength(c) ==
    /\ state = STATE_LENGTH
    /\ buffer' = Append(buffer, c)
    /\ packet_length' = buffer'[3]
    /\ IF LengthTooLong(packet_length')
          THEN /\ state' = STATE_HEADER_1
               /\ ev' = "length_reject"
          ELSE /\ state' = STATE_END
               /\ ev' = "length_ok"
    /\ call' = "none"
    /\ pc0' = "recv"
    /\ UNCHANGED channel
    /\ UNCHANGED core0idle

\* lines 88-103
RxEnd(c) ==
    /\ state = STATE_END
    /\ IF BufferOverrun(buffer)
          THEN /\ state' = STATE_HEADER_1
               /\ ev' = "overrun"
               /\ call' = "none"
               /\ pc0' = "recv"
               /\ UNCHANGED <<buffer, channel, packetID>>
          ELSE /\ buffer' = Append(buffer, c)
               /\ IF Len(buffer') = packet_length
                     THEN /\ ev' = "complete"
                          /\ IF ~checkCRC(buffer')
                                THEN /\ call' = "none"
                                     /\ state' = STATE_HEADER_1
                                     /\ pc0' = "recv"
                                     /\ UNCHANGED <<channel, packetID>>
                             ELSE IF IsChannelData(buffer')
                                THEN /\ call' = "getChannelData"
                                     /\ channel' = getChannelData(buffer')
                                     /\ state' = STATE_HEADER_1
                                     /\ pc0' = "recv"
                                     /\ UNCHANGED packetID
                             ELSE IF IsTelemetryRequest(buffer')
                                THEN /\ call' = "sendTelemetry"
                                     /\ packetID' = RequestID(buffer')
                                     /\ pc0' = "st_read_dev"
                                     /\ UNCHANGED <<state, channel>>
                             ELSE IF IsJetiBoxRequest(buffer')
                                THEN /\ call' = "sendJetiBoxMenu"
                                     /\ state' = STATE_HEADER_1
                                     /\ pc0' = "recv"
                                     /\ UNCHANGED <<channel, packetID>>
                             ELSE /\ call' = "none"
                                  /\ state' = STATE_HEADER_1
                                  /\ pc0' = "recv"
                                  /\ UNCHANGED <<channel, packetID>>
                     ELSE /\ ev' = "body"
                          /\ call' = "none"
                          /\ pc0' = "recv"
                          /\ UNCHANGED <<state, channel, packetID>>
    /\ UNCHANGED packet_length
    /\ UNCHANGED <<frame_count, dev_ready_local, data_ready_local,
                   n_labels_local, telemetry, uart, sel, ready_at_acquire,
                   tel_pub, uart_pub, served>>

\* lines 64-103: one pass of the loop with a byte available
ReceiveByte(c) ==
    /\ pc0 = "recv"
    /\ frame_count < MaxFrameCount
    /\ wr' = FALSE
    /\ \/ RxHeader1(c)
       \/ RxHeader2(c)
       \/ RxLength(c)
       \/ RxEnd(c)
    /\ UNCHANGED <<lock, unlocked>>
    /\ UNCHANGED sharedvars
    /\ UNCHANGED core1vars

\* the receiver sends an arbitrary byte
RxAny(c) ==
    /\ feed.phase = "free"
    /\ ReceiveByte(c)
    /\ UNCHANGED envvars
    /\ UNCHANGED mainvars
    /\ UNCHANGED sensorvars
    /\ UNCHANGED libvars
    /\ UNCHANGED codecvars

-----------------------------------------------------------------------------
(* Jeti/ExBus_optimized.py: ExBus.sendTelemetry, called from line 99 *)

\* an access of core `ctx` to the shared attribute `field`, noted when the
\* core does not hold the lock at that moment
Access(ctx, field) == IF lock = ctx THEN {} ELSE {<<ctx, field>>}

\* lines 127-133: the branch taken for the given flag values
SelectBranch(device_ready, data_ready, fc) ==
    IF device_ready /\ fc <= label_frames THEN "label"
    ELSE IF data_ready /\ fc > label_frames THEN "data"
    ELSE "none"

\* variant of DataReadyAtStart: the flag is set before any frame was built
DataReadyAtStart_set == TRUE

\* Ex.__init__, line 57: self.exbus_data_ready = False
DataReadyAtStart == FALSE

\* variant of ReadyAfterServe: the flag is left set
ReadyAfterServe_kept == TRUE

\* line 131: the value stored in ex.exbus_data_ready when the data frame is taken
ReadyAfterServe == FALSE

\* variant of PatchID: the stored frame is sent with its placeholder id
PatchID_none(tel, id) == tel

\* line 136: telemetry[:3] + packetID + telemetry[4:]
PatchID(tel, id) == PySlice(tel, 0, 3) \o id \o PyFrom(tel, 4)

\* variant of AppendCRC: the checksum is appended most significant byte first
AppendCRC_big(telemetry_ID) ==
    LET crc16_int == crc16_ccitt(telemetry_ID, Len(telemetry_ID))
    IN  telemetry_ID \o <<crc16_int \div 256, crc16_int % 256>>

\* lines 139-140: append the CRC16 of the patched frame
AppendCRC(telemetry_ID) ==
    telemetry_ID \o to_bytes_2_little(crc16_ccitt(telemetry_ID, Len(telemetry_ID)))

\* variant of LabelIndex: the list is entered one place further on
LabelIndex_next(fc, n) == (fc + 1) % n

\* line 128: the index self.frame_count % n_labels
LabelIndex(fc, n) == fc % n

\* variant of TakeData: the frame the producer is building is taken
TakeData_local == exbus_data_local

\* line 130: the frame taken in the data branch
TakeData == exbus_data

\* variant of NextFrameCount: the counter starts again after the announcements
NextFrameCount_wrap(fc) == (fc + 1) % (label_frames + 2)

\* line 119: self.frame_count += 1
NextFrameCount(fc) == fc + 1

\* lines 119 and 122
ST_ReadDeviceReady ==
    /\ pc0 = "st_read_dev"
    /\ frame_count' = NextFrameCount(frame_count)
    /\ dev_ready_local' = exbus_device_ready
    /\ unlocked' = unlocked \cup Access("core0", "exbus_device_ready")
    /\ sel' = "pending"
    /\ pc0' = "st_read_data"
    /\ UNCHANGED <<state, buffer, packet_length, channel, packetID,
                   data_ready_local, n_labels_local, telemetry, uart, ev, call,
                   wr, ready_at_acquire, tel_pub, uart_pub, served>>
    /\ UNCHANGED lock
    /\ UNCHANGED sharedvars
    /\ UNCHANGED core1vars
    /\ UNCHANGED envvars
    /\ UNCHANGED mainvars
    /\ UNCHANGED sensorvars
    /\ UNCHANGED libvars
    /\ UNCHANGED codecvars

\* lines 123-124
ST_ReadDataReady ==
    /\ pc0 = "st_read_data"
    /\ "n_labels" \in ex_attrs
    /\ data_ready_local' = exbus_data_ready
    /\ n_labels_local' = n_labels
    /\ unlocked' = unlocked \cup Access("core0", "exbus_data_ready")
                            \cup Access("core0", "n_labels")
    /\ pc0' = "st_acquire"
    /\ UNCHANGED <<state, buffer, packet_length, channel, packetID, frame_count,
                   dev_ready_local, telemetry, uart, ev, call, wr, sel,
                   ready_at_acquire, tel_pub, uart_pub, served>>
    /\ UNCHANGED lock
    /\ UNCHANGED sharedvars
    /\ UNCHANGED core1vars
    /\ UNCHANGED envvars
    /\ UNCHANGED mainvars
    /\ UNCHANGED sensorvars
    /\ UNCHANGED libvars
    /\ UNCHANGED codecvars

\* line 126: with self.lock (enter)
ST_Acquire ==
    /\ pc0 = "st_acquire"
    /\ lock = "free"
    /\ lock' = "core0"
    /\ ready_at_acquire' = exbus_data_ready
    /\ pc0' = "st_select"
    /\ UNCHANGED <<state, buffer, packet_length, channel, packetID, frame_count,
                   dev_ready_local, data_ready_local, n_labels_local, telemetry,
                   uart, ev, call, wr, sel, tel_pub, uart_pub, served>>
    /\ UNCHANGED unlocked
    /\ UNCHANGED sharedvars
    /\ UNCHANGED core1vars
    /\ UNCHANGED envvars
    /\ UNCHANGED mainvars
    /\ UNCHANGED sensorvars
    /\ UNCHANGED libvars
    /\ UNCHANGED codecvars

\* lines 127-133, inside the with block
ST_Select ==
    /\ pc0 = "st_select"
    /\ sel' = SelectBranch(dev_ready_local, data_ready_local, frame_count)
    /\ CASE sel' = "label" ->
              /\ telemetry' = dev_labels_units[LabelIndex(frame_count, n_labels_local) + 1]
              /\ tel_pub' = 0
              /\ unlocked' = unlocked \cup Access("core0", "dev_labels_units")
              /\ UNCHANGED <<exbus_data_ready>>
         [] sel' = "data" ->
              /\ telemetry' = TakeData
              /\ tel_pub' = slot_pub
              /\ exbus_data_ready' = ReadyAfterServe
              /\ unlocked' = unlocked \cup Access("core0", "exbus_data")
                                      \cup Access("core0", "exbus_data_ready")
         [] sel' = "none" ->
              /\ UNCHANGED <<telemetry, tel_pub, exbus_data_ready, unlocked>>
    /\ pc0' = "st_release"
    /\ UNCHANGED <<state, buffer, packet_length, channel, packetID, frame_count,
                   dev_ready_local, data_ready_local, n_labels_local, uart, ev,
                   call, wr, ready_at_acquire, uart_pub, served>>
    /\ UNCHANGED lock
    /\ UNCHANGED <<exbus_data, exbus_device_ready, dev_labels_units, n_labels,
                   slot_pub>>
    /\ UNCHANGED core1vars
    /\ UNCHANGED envvars
    /\ UNCHANGED mainvars
    /\ UNCHANGED sensorvars
    /\ UNCHANGED libvars
    /\ UNCHANGED codecvars

\* line 126: with self.lock (exit); on "return 0" back to line 102
ST_Release ==
    /\ pc0 = "st_release"
    /\ lock' = "free"
    /\ IF sel = "none"
          THEN /\ pc0' = "recv"
               /\ state' = STATE_HEADER_1
          ELSE /\ pc0' = "st_write"
               /\ UNCHANGED state
    /\ UNCHANGED <<buffer, packet_length, channel, packetID, frame_count,
                   dev_ready_local, data_ready_local, n_labels_local, telemetry,
                   uart, ev, call, wr, sel, ready_at_acquire, tel_pub, uart_pub,
                   served>>
    /\ UNCHANGED unlocked
    /\ UNCHANGED sharedvars
    /\ UNCHANGED core1vars
    /\ UNCHANGED envvars
    /\ UNCHANGED mainvars
    /\ UNCHANGED sensorvars
    /\ UNCHANGED libvars
    /\ UNCHANGED codecvars

\* lines 136-144, then line 102
ST_Write ==
    /\ pc0 = "st_write"
    /\ uart' = AppendCRC(PatchID(telemetry, packetID))
    /\ wr' = TRUE
    /\ uart_pub' = tel_pub
    /\ served' = IF sel = "data"
                    THEN [served EXCEPT ![tel_pub] = @ + 1]
                    ELSE served
    /\ pc0' = "recv"
    /\ state' = STATE_HEADER_1
    /\ UNCHANGED <<buffer, packet_length, channel, packetID, frame_count,
                   dev_ready_local, data_ready_local, n_labels_local, telemetry,
                   ev, call, sel, ready_at_acquire, tel_pub>>
    /\ UNCHANGED <<lock, unlocked>>
    /\ UNCHANGED sharedvars
    /\ UNCHANGED core1vars
    /\ UNCHANGED envvars
    /\ UNCHANGED mainvars
    /\ UNCHANGED sensorvars
    /\ UNCHANGED libvars
    /\ UNCHANGED codecvars

-----------------------------------------------------------------------------
(* Jeti/Ex.py: Ex.run_forever, the producer on core1 *)

\* lines 118-160: next sensor, read it, build the local frame when there is data
P_Read(v) ==
    /\ pc1 = "p_read"
    /\ pubs < MaxPubs
    /\ sensor_idx' = cycler_advance(sensor_idx, Len(Sensors))
    /\ reads' = Append(reads, Sensors[sensor_idx + 1])
    /\ IF Sensors[sensor_idx + 1] = "RPM"
          THEN /\ exbus_data_local' = exbus_frame(ex_frame(1, Data("RPM", v)))
               /\ pc1' = "p_acquire"
          ELSE /\ UNCHANGED <<exbus_data_local, pc1>>
    /\ UNCHANGED <<pubs, published>>
    /\ UNCHANGED <<lock, unlocked>>
    /\ UNCHANGED sharedvars
    /\ UNCHANGED core0vars
    /\ UNCHANGED envvars
    /\ UNCHANGED mainvars
    /\ UNCHANGED sensorvars
    /\ UNCHANGED libvars
    /\ UNCHANGED codecvars

\* line 162: with self.lock (enter)
P_Acquire ==
    /\ pc1 = "p_acquire"
    /\ lock = "free"
    /\ lock' = "core1"
    /\ pc1' = "p_write_data"
    /\ UNCHANGED <<sensor_idx, exbus_data_local, pubs, published, reads>>
    /\ UNCHANGED unlocked
    /\ UNCHANGED sharedvars
    /\ UNCHANGED core0vars
    /\ UNCHANGED envvars
    /\ UNCHANGED mainvars
    /\ UNCHANGED sensorvars
    /\ UNCHANGED libvars
    /\ UNCHANGED codecvars

\* variant of Publish: a frame that was not taken yet is kept
Publish_keepfirst(old, new) == IF exbus_data_ready THEN old ELSE new

\* line 163: the slot (frame, publication number) after the assignment
Publish(old, new) == new

\* line 163
P_WriteData ==
    /\ pc1 = "p_write_data"
    /\ LET slot == Publish(<<exbus_data, slot_pub>>, <<exbus_data_local, pubs + 1>>)
       IN  /\ exbus_data' = slot[1]
           /\ slot_pub' = slot[2]
    /\ pubs' = pubs + 1
    /\ published' = Append(published, exbus_data_local)
    /\ unlocked' = unlocked \cup Access("core1", "exbus_data")
    /\ pc1' = "p_write_ready"
    /\ UNCHANGED <<sensor_idx, exbus_data_local, reads>>
    /\ UNCHANGED lock
    /\ UNCHANGED <<exbus_data_ready, exbus_device_ready, dev_labels_units, n_labels>>
    /\ UNCHANGED core0vars
    /\ UNCHANGED envvars
    /\ UNCHANGED mainvars
    /\ UNCHANGED sensorvars
    /\ UNCHANGED libvars
    /\ UNCHANGED codecvars

\* line 164
P_WriteReady ==
    /\ pc1 = "p_write_ready"
    /\ exbus_data_ready' = TRUE
    /\ unlocked' = unlocked \cup Access("core1", "exbus_data_ready")
    /\ pc1' = "p_release"
    /\ UNCHANGED <<sensor_idx, exbus_data_local, pubs, published, reads>>
    /\ UNCHANGED lock
    /\ UNCHANGED <<exbus_data, exbus_device_ready, dev_labels_units, n_labels,
                   slot_pub>>
    /\ UNCHANGED core0vars
    /\ UNCHANGED envvars
    /\ UNCHANGED mainvars
    /\ UNCHANGED sensorvars
    /\ UNCHANGED libvars
    /\ UNCHANGED codecvars

\* line 162: with self.lock (exit)
P_Release ==
    /\ pc1 = "p_release"
    /\ lock' = "free"
    /\ pc1' = "p_read"
    /\ UNCHANGED <<sensor_idx, exbus_data_local, pubs, published, reads>>
    /\ UNCHANGED unlocked
    /\ UNCHANGED sharedvars
    /\ UNCHANGED core0vars
    /\ UNCHANGED envvars
    /\ UNCHANGED mainvars
    /\ UNCHANGED sensorvars
    /\ UNCHANGED libvars
    /\ UNCHANGED codecvars

-----------------------------------------------------------------------------
(* The system: both constructors have run, the two loops are about to start *)

\* the sensors' serial number as the source has it
InitSensors ==
    /\ productID = productID_literal
    /\ deviceID = deviceID_config

\* no checksum has been computed
NoCrcCall ==
    /\ crc16_out = -1
    /\ crc8_out = -1
    /\ crc8_viper_out = -1
    /\ crc_framed = <<>>
    /\ crc_wire = <<>>

\* no value has been encoded
NoEncodeCall ==
    /\ enc_scaled = 0
    /\ enc_out = <<>>
    /\ enc_error = "none"

\* neither Ex.Header nor Ex.Message has been called
NoBuildCall ==
    /\ bld_call = [fn |-> "none"]
    /\ bld_out = <<>>
    /\ bld_error = "none"

\* ExBusPacketDecoder before decode(): none of its attributes is set
NoDecodeCall ==
    /\ dec_out = [decoded |-> FALSE, error |-> "none", source |-> "",
                  message_length |-> 0, packet_id |-> 0, type |-> "",
                  length_data |-> 0, crc |-> 0]

\* no call of a library function is under observation
InitLib ==
    /\ crc_in = <<>>
    /\ NoCrcCall
    /\ enc_in = [data_type |-> -1]
    /\ NoEncodeCall
    /\ NoBuildCall
    /\ dec_packet = <<>>
    /\ NoDecodeCall

\* no call of ex_frame is under observation
InitCodec ==
    /\ ex_type = -1
    /\ ex_body = <<>>
    /\ ex_returned = <<>>
    /\ ex_flipped = <<>>

\* Ex.run_forever lines 94-100 have run: the announcement list is built
StartupDone ==
    /\ exbus_device_ready = TRUE
    /\ dev_labels_units = [i \in 1..Len(labels) |-> exbus_frame(ex_frame(0, Text(labels[i])))]
    /\ n_labels = Len(labels)
    /\ ex_attrs = {"dev_labels_units", "n_labels"}
    /\ pc1 = "p_read"

\* what the constructors leave, apart from the announcement list
InitConstructed ==
    /\ state = STATE_HEADER_1
    /\ buffer = <<>>
    /\ packet_length = 0
    /\ channel = <<>>
    /\ pc0 = "recv"
    /\ packetID = <<>>
    /\ frame_count = -1
    /\ dev_ready_local = FALSE
    /\ data_ready_local = FALSE
    /\ n_labels_local = 0
    /\ telemetry = <<>>
    /\ uart = <<>>
    /\ lock = "free"
    /\ exbus_data = <<>>
    /\ exbus_data_ready = DataReadyAtStart
    /\ raised = "none"
    /\ old_state = STATE_HEADER_1
    /\ exbusBuffer = <<>>
    /\ old_packet_length = 0
    /\ old_error = "none"
    /\ old_ev = "start"
    /\ sensor_idx = 0
    /\ exbus_data_local = <<>>
    /\ main_thread_running = TRUE
    /\ ev = "start"
    /\ call = "none"
    /\ wr = FALSE
    /\ sel = "idle"
    /\ ready_at_acquire = FALSE
    /\ unlocked = {}
    /\ pubs = 0
    /\ published = <<>>
    /\ reads = <<>>
    /\ slot_pub = 0
    /\ tel_pub = 0
    /\ uart_pub = 0
    /\ served = [p \in 1..MaxPubs |-> 0]

\* the state left by Ex.__init__ and ExBus.__init__, for a given serial number
InitSystem ==
    /\ InitConstructed
    /\ StartupDone

Init ==
    /\ InitSensors
    /\ InitCodec
    /\ InitLib
    /\ InitSystem
    /\ feed = [phase |-> "free", frame |-> <<>>, pos |-> 0, clean |-> FALSE]
    /\ ndispatch = 0
    /\ right = TRUE

Next ==
    \/ \E c \in RxBytes : RxAny(c)
    \/ ST_ReadDeviceReady
    \/ ST_ReadDataReady
    \/ ST_Acquire
    \/ ST_Select
    \/ ST_Release
    \/ ST_Write
    \/ \E v \in SensorValues : P_Read(v)
    \/ P_Acquire
    \/ P_WriteData
    \/ P_WriteReady
    \/ P_Release

Spec == Init /\ [][Next]_vars

-----------------------------------------------------------------------------
(* Resynchronisation: the receiver sends garbage, then one valid frame *)

\* number of garbage bytes sent before the valid frame
MaxGarbage == 3

GarbageBytes == {0, 1, 3, 8, 60, 61, 62}

\* a frame as the master sends it: headers, total length, packet id,
\* sub-type identifier, payload length, payload, CRC16 least significant first
MasterFrame(h1, h2, id, type, payload) ==
    LET body == <<h1, h2, Len(payload) + 8, id, type, Len(payload)>> \o payload
        crc  == crc16_ccitt(body, Len(body))
    IN  body \o <<crc % 256, crc \div 256>>

\* complete valid frames of the three types run_forever recognises
ValidFrames ==
    { MasterFrame(62, 1, 6, 49, <<>>), MasterFrame(62, 3, 6, 49, <<>>),
      MasterFrame(61, 1, 6, 58, <<>>), MasterFrame(61, 1, 0, 59, <<>>) }

\* the handler invocations seen while the feed is scripted
CountDispatch ==
    /\ ndispatch' = ndispatch + (IF call' # "none" THEN 1 ELSE 0)
    /\ right' = (right /\ (call' # "none" =>
                              (feed.phase = "frame" /\ buffer' = feed.frame)))

RxGarbage(c) ==
    /\ feed.phase = "garbage"
    /\ feed.pos < MaxGarbage
    /\ ReceiveByte(c)
    /\ feed' = [feed EXCEPT !.pos = @ + 1]
    /\ CountDispatch
    /\ UNCHANGED mainvars
    /\ UNCHANGED sensorvars
    /\ UNCHANGED libvars
    /\ UNCHANGED codecvars

\* the garbage ends here; clean: it caused no dispatch and left the parser
\* waiting for a first header byte
StartFrame(f) ==
    /\ feed.phase = "garbage"
    /\ pc0 = "recv"
    /\ feed' = [phase |-> "frame", frame |-> f, pos |-> 0,
                clean |-> (state = STATE_HEADER_1 /\ ndispatch = 0)]
    /\ UNCHANGED <<ndispatch, right, lock, unlocked>>
    /\ UNCHANGED core0vars
    /\ UNCHANGED core1vars
    /\ UNCHANGED sharedvars
    /\ UNCHANGED mainvars
    /\ UNCHANGED sensorvars
    /\ UNCHANGED libvars
    /\ UNCHANGED codecvars

RxFrame ==
    /\ feed.phase = "frame"
    /\ ReceiveByte(feed.frame[feed.pos + 1])
    /\ feed' = [feed EXCEPT !.pos = @ + 1,
                            !.phase = IF feed.pos + 1 = Len(feed.frame)
                                         THEN "done" ELSE "frame"]
    /\ CountDispatch
    /\ UNCHANGED mainvars
    /\ UNCHANGED sensorvars
    /\ UNCHANGED libvars
    /\ UNCHANGED codecvars

InitResync ==
    /\ InitSensors
    /\ InitCodec
    /\ InitLib
    /\ InitSystem
    /\ feed = [phase |-> "garbage", frame |-> <<>>, pos |-> 0, clean |-> FALSE]
    /\ ndispatch = 0
    /\ right = TRUE

NextResync ==
    \/ \E c \in GarbageBytes : RxGarbage(c)
    \/ \E f \in ValidFrames : StartFrame(f)
    \/ RxFrame
    \/ ST_ReadDeviceReady
    \/ ST_ReadDataReady
    \/ ST_Acquire
    \/ ST_Select
    \/ ST_Release
    \/ ST_Write
    \/ \E v \in SensorValues : P_Read(v)
    \/ P_Acquire
    \/ P_WriteData
    \/ P_WriteReady
    \/ P_Release

SpecResync == InitResync /\ [][NextResync]_vars

-----------------------------------------------------------------------------
(* Faults: an interrupt on core0, a sensor whose read fails on core1 *)

\* main.py core0, lines 86-101: KeyboardInterrupt is raised in
\* exbus.run_forever() at any point; the with block of sendTelemetry
\* (ExBus_optimized.py line 126) releases the lock on the way out, the
\* handler clears main_thread_running and the thread exits
KeyboardInterrupt ==
    /\ pc0 # "stopped"
    /\ pc0' = "stopped"
    /\ main_thread_running' = FALSE
    /\ lock' = IF lock = "core0" THEN "free" ELSE lock
    /\ UNCHANGED <<state, buffer, packet_length, channel, packetID, frame_count,
                   dev_ready_local, data_ready_local, n_labels_local, telemetry,
                   uart, ev, call, wr, sel, ready_at_acquire, tel_pub, uart_pub,
                   served>>
    /\ UNCHANGED unlocked
    /\ UNCHANGED sharedvars
    /\ UNCHANGED core1vars
    /\ UNCHANGED envvars
    /\ UNCHANGED sensorvars
    /\ UNCHANGED libvars
    /\ UNCHANGED codecvars

\* Ex.run_forever lines 121-125: current_sensor.read_jeti() raises; nothing
\* in run_forever catches it, the exception ends the thread
P_ReadFails ==
    /\ pc1 = "p_read"
    /\ pubs < MaxPubs
    /\ sensor_idx' = cycler_advance(sensor_idx, Len(Sensors))
    /\ reads' = Append(reads, Sensors[sensor_idx + 1])
    /\ pc1' = "crashed"
    /\ UNCHANGED <<exbus_data_local, pubs, published>>
    /\ UNCHANGED <<lock, unlocked>>
    /\ UNCHANGED sharedvars
    /\ UNCHANGED core0vars
    /\ UNCHANGED envvars
    /\ UNCHANGED mainvars
    /\ UNCHANGED sensorvars
    /\ UNCHANGED libvars
    /\ UNCHANGED codecvars

NextFaults ==
    \/ Next
    \/ KeyboardInterrupt
    \/ P_ReadFails

SpecFaults == Init /\ [][NextFaults]_vars

-----------------------------------------------------------------------------
(* The EX packet codec: Ex.ex_frame called on its own, for the serial numbers
   a configuration can give, and its result sent with one bit flipped *)

\* largest magnitude of a sensor value passed to ex_frame
MaxValue == 2

CodecValues == (0 - MaxValue)..MaxValue

\* Sensors.productID: the source's literal, and the two bytes 0x00 0xA4
ProductIDs == {productID_literal, <<0, 164>>}

\* Sensors.deviceID: two bytes
DeviceIDs == {deviceID_config, <<2, 0>>}

\* the labels that carry a value (Ex.run_forever builds data frames for these)
DataLabels == {"RPM", "VOLT"}

\* Ex.ex_frame lines 209-214: the body is built by Data for frametype 1,
\* by Text for frametype 0
FrameBody(frametype, label, value) ==
    IF frametype = 1 THEN Data(label, value) ELSE Text(label)

\* a call ex_frame(frametype, data={label: value}, label=label), lines 206-239
ExFrameCall(frametype, label, value) ==
    /\ ex_type' = frametype
    /\ ex_body' = FrameBody(frametype, label, value)
    /\ ex_returned' = ex_frame(frametype, FrameBody(frametype, label, value))
    /\ ex_flipped' = <<>>
    /\ UNCHANGED <<lock, unlocked>>
    /\ UNCHANGED core0vars
    /\ UNCHANGED core1vars
    /\ UNCHANGED sharedvars
    /\ UNCHANGED envvars
    /\ UNCHANGED mainvars
    /\ UNCHANGED sensorvars
    /\ UNCHANGED libvars

\* the returned packet reaches a reader with bit b of the byte at index i flipped
FlipBit(i, b) ==
    /\ ex_returned # <<>>
    /\ i \in 1..(Len(ex_returned) - 1)
    /\ ex_flipped' = [ex_returned EXCEPT ![i + 1] = BitXor(@, 2 ^ b)]
    /\ UNCHANGED <<ex_type, ex_body, ex_returned>>
    /\ UNCHANGED <<lock, unlocked>>
    /\ UNCHANGED core0vars
    /\ UNCHANGED core1vars
    /\ UNCHANGED sharedvars
    /\ UNCHANGED envvars
    /\ UNCHANGED mainvars
    /\ UNCHANGED sensorvars
    /\ UNCHANGED libvars

\* longest EX packet: 29 bytes (Ex.Data, Ex.Text docstrings)
MaxExPacket == 29

InitCodecSpec ==
    /\ productID \in ProductIDs
    /\ deviceID \in DeviceIDs
    /\ InitCodec
    /\ InitLib
    /\ InitSystem
    /\ feed = [phase |-> "free", frame |-> <<>>, pos |-> 0, clean |-> FALSE]
    /\ ndispatch = 0
    /\ right = TRUE

NextCodec ==
    \/ \E l \in {labels[i] : i \in 1..Len(labels)} : ExFrameCall(0, l, 0)
    \/ \E l \in DataLabels : \E v \in CodecValues : ExFrameCall(1, l, v)
    \/ \E i \in 1..MaxExPacket : \E b \in 0..7 : FlipBit(i, b)

SpecCodec == InitCodecSpec /\ [][NextCodec]_vars

-----------------------------------------------------------------------------
(* The checksums: crc16_ccitt, checkCRC, crc8 and crc8_viper called on their
   own on a byte sequence, and the framed sequence received with one bit
   flipped *)

\* longest byte sequence drawn from CrcBytes
MaxCrcLen == 3

CrcBytes == {0, 1, 255}

RECURSIVE SeqsUpTo(_, _)
SeqsUpTo(S, n) ==
    IF n = 0 THEN {<<>>}
    ELSE LET shorter == SeqsUpTo(S, n - 1)
         IN  shorter \cup {Append(q, x) : q \in shorter, x \in S}

\* CRC16.py lines 35-38: the channel data example
ChannelDataExample ==
    <<62, 3, 40, 6, 49, 32>> \o [i \in 1..32 |-> IF i % 2 = 1 THEN 130 ELSE 31]

\* CRC16.py line 50: the telemetry request example
TelemetryRequestExample == <<61, 1, 8, 6, 58, 0>>

\* CRC8.py lines 75-76: the data telemetry example
DataTelemetryExample == <<76, 161, 168, 93, 85, 0, 17, 232, 35, 33, 27, 0>>

CrcInputs ==
    SeqsUpTo(CrcBytes, MaxCrcLen)
        \cup {ChannelDataExample, TelemetryRequestExample, DataTelemetryExample}

\* crc16_ccitt(packet, len(packet)), and the sequence framed as sendTelemetry
\* frames it (ExBus_optimized.py lines 139-140)
Crc16Call ==
    /\ crc16_out = -1
    /\ crc16_out' = crc16_ccitt(crc_in, Len(crc_in))
    /\ crc_framed' = AppendCRC(crc_in)
    /\ UNCHANGED <<crc_in, crc8_out, crc8_viper_out, crc_wire>>
    /\ UNCHANGED <<lock, unlocked>>
    /\ UNCHANGED core0vars
    /\ UNCHANGED core1vars
    /\ UNCHANGED sharedvars
    /\ UNCHANGED envvars
    /\ UNCHANGED mainvars
    /\ UNCHANGED sensorvars
    /\ UNCHANGED codecvars
    /\ UNCHANGED <<encvars, buildvars, decvars>>
    /\ UNCHANGED <<startvars, oldvars>>

\* crc8(packet) and crc8_viper(packet, len(packet)) on the same sequence
Crc8Call ==
    /\ crc8_out = -1
    /\ crc8_out' = crc8(crc_in)
    /\ crc8_viper_out' = crc8_viper(crc_in, Len(crc_in))
    /\ UNCHANGED <<crc_in, crc16_out, crc_framed, crc_wire>>
    /\ UNCHANGED <<lock, unlocked>>
    /\ UNCHANGED core0vars
    /\ UNCHANGED core1vars
    /\ UNCHANGED sharedvars
    /\ UNCHANGED envvars
    /\ UNCHANGED mainvars
    /\ UNCHANGED sensorvars
    /\ UNCHANGED codecvars
    /\ UNCHANGED <<encvars, buildvars, decvars>>
    /\ UNCHANGED <<startvars, oldvars>>

\* the framed sequence reaches checkCRC with bit b of the byte at index i flipped
CrcFlipBit(i, b) ==
    /\ crc_framed # <<>>
    /\ i \in 0..(Len(crc_framed) - 1)
    /\ crc_wire' = [crc_framed EXCEPT ![i + 1] = BitXor(@, 2 ^ b)]
    /\ UNCHANGED <<crc_in, crc16_out, crc8_out, crc8_viper_out, crc_framed>>
    /\ UNCHANGED <<lock, unlocked>>
    /\ UNCHANGED core0vars
    /\ UNCHANGED core1vars
    /\ UNCHANGED sharedvars
    /\ UNCHANGED envvars
    /\ UNCHANGED mainvars
    /\ UNCHANGED sensorvars
    /\ UNCHANGED codecvars
    /\ UNCHANGED <<encvars, buildvars, decvars>>
    /\ UNCHANGED <<startvars, oldvars>>

InitCrc ==
    /\ InitSensors
    /\ InitCodec
    /\ crc_in \in CrcInputs
    /\ NoCrcCall
    /\ enc_in = [data_type |-> -1]
    /\ NoEncodeCall
    /\ NoBuildCall
    /\ dec_packet = <<>>
    /\ NoDecodeCall
    /\ InitSystem
    /\ feed = [phase |-> "free", frame |-> <<>>, pos |-> 0, clean |-> FALSE]
    /\ ndispatch = 0
    /\ right = TRUE

NextCrc ==
    \/ Crc16Call
    \/ Crc8Call
    \/ \E i \in 0..(Len(ChannelDataExample) + 1) : \E b \in 0..7 : CrcFlipBit(i, b)

SpecCrc == InitCrc /\ [][NextCrc]_vars

-----------------------------------------------------------------------------
(* The value encoder: Ex.Data called on one entry, for every data type *)

\* largest precision of an entry (the field has two bits)
MaxPrecision == 2

\* magnitudes at and just beyond the limits of the data types
EncMagnitudes == {1, 4, 5, 31, 32, 8191, 8192, 2097151, 2097152, 536870911, 536870912}

EncNumerators == {0} \cup EncMagnitudes \cup {0 - x : x \in EncMagnitudes}

\* EncodeValue's docstring: the data types
DataTypes == {0, 1, 4, 5, 8, 9}

Abs(x) == IF x < 0 THEN 0 - x ELSE x

\* the entries handed to Ex.Data: the value num/den and the entry's metadata;
\* the scaled value fits the 32-bit int of the viper function EncodeValue
EncInputs ==
    {e \in [num : EncNumerators, den : {1, 10}, id : {1},
            data_type : DataTypes, precision : 0..MaxPrecision] :
        Abs(e.num) <= 1073741823 \div (10 ^ e.precision)}

\* Ex.Data lines 284-299 for the entry enc_in; no statement on this path raises
DataCall ==
    /\ enc_out = <<>>
    /\ enc_scaled' = Scale(enc_in.num, enc_in.den, enc_in.precision)
    /\ enc_out' = DataEntry(enc_in, enc_in.num, enc_in.den)
    /\ enc_error' = "none"
    /\ UNCHANGED enc_in
    /\ UNCHANGED <<lock, unlocked>>
    /\ UNCHANGED core0vars
    /\ UNCHANGED core1vars
    /\ UNCHANGED sharedvars
    /\ UNCHANGED envvars
    /\ UNCHANGED mainvars
    /\ UNCHANGED sensorvars
    /\ UNCHANGED codecvars
    /\ UNCHANGED <<crcvars, buildvars, decvars>>
    /\ UNCHANGED <<startvars, oldvars>>

InitEncode ==
    /\ InitSensors
    /\ InitCodec
    /\ crc_in = <<>>
    /\ NoCrcCall
    /\ enc_in \in EncInputs
    /\ NoEncodeCall
    /\ NoBuildCall
    /\ dec_packet = <<>>
    /\ NoDecodeCall
    /\ InitSystem
    /\ feed = [phase |-> "free", frame |-> <<>>, pos |-> 0, clean |-> FALSE]
    /\ ndispatch = 0
    /\ right = TRUE

NextEncode == DataCall

SpecEncode == InitEncode /\ [][NextEncode]_vars

-----------------------------------------------------------------------------
(* The builders: Ex.Header called for a body length, Ex.Message for a text *)

\* longest body length passed to Ex.Header
MaxBodyLen == 58

\* longest message text passed to Ex.Message
MaxTextLen == 3

\* the characters of the message texts: 'H' and 'i'
TextChars == {72, 105}

\* Ex.Header(frametype, length), lines 242-273: no statement raises
HeaderCall(frametype, length) ==
    /\ bld_call' = [fn |-> "Header", frametype |-> frametype, length |-> length]
    /\ bld_out' = Header(frametype, length)
    /\ bld_error' = "none"
    /\ UNCHANGED <<lock, unlocked>>
    /\ UNCHANGED core0vars
    /\ UNCHANGED core1vars
    /\ UNCHANGED sharedvars
    /\ UNCHANGED envvars
    /\ UNCHANGED mainvars
    /\ UNCHANGED sensorvars
    /\ UNCHANGED codecvars
    /\ UNCHANGED <<crcvars, encvars, decvars>>
    /\ UNCHANGED <<startvars, oldvars>>

\* Ex.Message(message, msg_class), lines 333-355
MessageCall(message, msg_class) ==
    /\ bld_call' = [fn |-> "Message", message |-> message, msg_class |-> msg_class]
    /\ bld_out' = Message(message, msg_class).out
    /\ bld_error' = Message(message, msg_class).error
    /\ UNCHANGED <<lock, unlocked>>
    /\ UNCHANGED core0vars
    /\ UNCHANGED core1vars
    /\ UNCHANGED sharedvars
    /\ UNCHANGED envvars
    /\ UNCHANGED mainvars
    /\ UNCHANGED sensorvars
    /\ UNCHANGED codecvars
    /\ UNCHANGED <<crcvars, encvars, decvars>>
    /\ UNCHANGED <<startvars, oldvars>>

InitBuild ==
    /\ InitSensors
    /\ InitCodec
    /\ InitLib
    /\ InitSystem
    /\ feed = [phase |-> "free", frame |-> <<>>, pos |-> 0, clean |-> FALSE]
    /\ ndispatch = 0
    /\ right = TRUE

\* frame types 0 (text), 1 (data), 2 (message); message classes 0..4
NextBuild ==
    \/ \E frametype \in 0..2 : \E length \in 0..MaxBodyLen :
            HeaderCall(frametype, length)
    \/ \E message \in SeqsUpTo(TextChars, MaxTextLen) : \E msg_class \in 0..4 :
            MessageCall(message, msg_class)

SpecBuild == InitBuild /\ [][NextBuild]_vars

-----------------------------------------------------------------------------
(* debug/EX_BUS_packet_decoder.py: ExBusPacketDecoder.decode on a frame from
   the master *)

\* struct.unpack('b', one byte)[0]: the byte read as a signed 8-bit integer
unpack_b(x) == IF x >= 128 THEN x - 256 ELSE x

\* struct.unpack('B', one byte)[0]: the byte read as an unsigned integer
unpack_B(x) == x

\* lines 18-22: self.packet_header
packet_header ==
    [h \in {62, 61, 59} |-> IF h = 59 THEN "Slave Packet" ELSE "Master Packet"]

\* lines 25-31: self.data_identifiers
data_identifiers ==
    [k \in {<<62, 49>>, <<61, 58>>, <<61, 59>>, <<59, 58>>, <<59, 59>>} |->
        CASE k = <<62, 49>> -> "Channel Values"
          [] k = <<61, 58>> -> "Telemetry request"
          [] k = <<61, 59>> -> "JETIBOX request"
          [] k = <<59, 58>> -> "EX Telemetry"
          [] k = <<59, 59>> -> "JETIBOX menu"]

\* lines 39-56 for a packet of at least 8 bytes whose type is not
\* 'EX Telemetry' (lines 47-52 are skipped); a key missing from one of the
\* two dictionaries raises KeyError
decode(packet) ==
    LET failed == [decoded |-> FALSE, error |-> "KeyError", source |-> "",
                   message_length |-> 0, packet_id |-> 0, type |-> "",
                   length_data |-> 0, crc |-> 0]
    IN  IF packet[1] \notin DOMAIN packet_header THEN failed
        ELSE IF <<packet[1], packet[5]>> \notin DOMAIN data_identifiers THEN failed
        ELSE [decoded        |-> TRUE,
              error          |-> "none",
              source         |-> packet_header[packet[1]],
              message_length |-> unpack_b(packet[3]),
              packet_id      |-> unpack_b(packet[4]),
              type           |-> data_identifiers[<<packet[1], packet[5]>>],
              length_data    |-> unpack_b(packet[6]),
              crc            |-> from_bytes_little(PyLast2(packet))]

\* well-formed frames from the master: requests with every packet id, and
\* the channel data example of the documentation (lines 117-119)
DecPackets ==
    {MasterFrame(61, 1, id, type, payload) :
        id \in 0..255, type \in {58, 59}, payload \in {<<>>, <<240>>}}
        \cup {AppendCRC(ChannelDataExample)}

\* exbus_decoder.packet = packet; exbus_decoder.decode() (lines 128-129)
DecodeCall ==
    /\ ~dec_out.decoded
    /\ dec_out.error = "none"
    /\ dec_out' = decode(dec_packet)
    /\ UNCHANGED dec_packet
    /\ UNCHANGED <<lock, unlocked>>
    /\ UNCHANGED core0vars
    /\ UNCHANGED core1vars
    /\ UNCHANGED sharedvars
    /\ UNCHANGED envvars
    /\ UNCHANGED mainvars
    /\ UNCHANGED sensorvars
    /\ UNCHANGED codecvars
    /\ UNCHANGED <<crcvars, encvars, buildvars>>
    /\ UNCHANGED <<startvars, oldvars>>

InitDecode ==
    /\ InitSensors
    /\ InitCodec
    /\ crc_in = <<>>
    /\ NoCrcCall
    /\ enc_in = [data_type |-> -1]
    /\ NoEncodeCall
    /\ NoBuildCall
    /\ dec_packet \in DecPackets
    /\ NoDecodeCall
    /\ InitSystem
    /\ feed = [phase |-> "free", frame |-> <<>>, pos |-> 0, clean |-> FALSE]
    /\ ndispatch = 0
    /\ right = TRUE

NextDecode == DecodeCall

SpecDecode == InitDecode /\ [][NextDecode]_vars

-----------------------------------------------------------------------------
(* Properties *)

\* the last two bytes of buf, read little-endian, are the CRC16 of the
\* bytes before them
CrcMatches(buf) ==
    /\ Len(buf) >= 2
    /\ buf[Len(buf) - 1] + 256 * buf[Len(buf)]
           = crc16_ccitt(SubSeq(buf, 1, Len(buf) - 2), Len(buf) - 2)

\* the byte just read completed the buffer (line 94)
Completes == state = STATE_END /\ buffer' # buffer /\ Len(buffer') = packet_length

\* C1: a handler is invoked only by the byte that completes a buffer whose
\* trailing two bytes (little-endian) are the CRC16 of the bytes before
\* them; a completed buffer that fails the check causes no handler call and
\* no UART write (a write needs a sendTelemetry call).
C1_DispatchOnlyOnValidCRC ==
    [][/\ (call' # "none" /\ <<call, buffer>>' # <<call, buffer>>)
             => (Completes /\ CrcMatches(buffer'))
       /\ (Completes /\ ~CrcMatches(buffer'))
             => (call' = "none" /\ pc0' = "recv" /\ uart' = uart)
       /\ wr' => call' = "sendTelemetry"]_vars

\* a telemetry request with a wrong checksum was completed and dropped
C1_Witness ==
    /\ ev = "complete"
    /\ PySlice(buffer, 0, 2) = <<61, 1>>
    /\ PySlice(buffer, 4, 5) = <<58>>
    /\ ~CrcMatches(buffer)
    /\ call = "none"

\* C2 as claimed: after any garbage followed by one complete valid frame,
\* exactly one frame has been dispatched, and it is the valid one.
C2_ResyncAnyGarbage ==
    feed.phase = "done" => (ndispatch = 1 /\ right)

\* C2 as amended: the same, for garbage that caused no dispatch itself and
\* left the parser in STATE_HEADER_1.
C2_ResyncFromHeader1 ==
    (feed.phase = "done" /\ feed.clean) => (ndispatch = 1 /\ right)

\* three garbage bytes that do not start a frame, then the telemetry
\* request, which was dispatched
C2_Witness ==
    /\ feed.phase = "done"
    /\ feed.clean
    /\ ndispatch = 1
    /\ call = "sendTelemetry"
    /\ buffer = feed.frame

\* C3: in STATE_HEADER_2 a byte outside {0x01, 0x03} puts the parser back
\* in STATE_HEADER_1.
C3_Header2MismatchResets ==
    ev = "h2_mismatch" => state = STATE_HEADER_1

\* C4: the length byte read in STATE_LENGTH sends the parser to
\* STATE_HEADER_1 when it is greater than 60 and to STATE_END otherwise.
C4_LengthSanity ==
    [][(state = STATE_LENGTH /\ buffer' # buffer) =>
          /\ Len(buffer') = 3
          /\ IF buffer'[3] > 60 THEN state' = STATE_HEADER_1
                                ELSE state' = STATE_END]_vars

\* the length byte 61 was read and the parser waits for a first header byte
C4_Witness ==
    /\ ev = "length_reject"
    /\ Len(buffer) = 3
    /\ buffer[3] = 61
    /\ state = STATE_HEADER_1

\* C5: the receive buffer never holds more than 61 bytes, and the byte read
\* with more than 60 bytes in the buffer resets the parser to STATE_HEADER_1
\* without being stored.
C5_BufferBounded ==
    [][/\ Len(buffer') <= 61
       /\ (/\ state = STATE_END
           /\ Len(buffer) > 60
           /\ <<state, buffer, ev>>' # <<state, buffer, ev>>)
             => (state' = STATE_HEADER_1 /\ buffer' = buffer)]_vars

\* a frame of declared length 3 filled the buffer and was abandoned
C5_Witness ==
    /\ ev = "overrun"
    /\ packet_length = 3
    /\ Len(buffer) = 61
    /\ state = STATE_HEADER_1

\* the handler the pair (buffer[0], buffer[4]) alone would select
HandlerByPair(buf) ==
    IF PySlice(buf, 0, 1) = <<62>> /\ PySlice(buf, 4, 5) = <<49>>
        THEN "getChannelData"
    ELSE IF PySlice(buf, 0, 1) = <<61>> /\ PySlice(buf, 4, 5) = <<58>>
        THEN "sendTelemetry"
    ELSE IF PySlice(buf, 0, 1) = <<61>> /\ PySlice(buf, 4, 5) = <<59>>
        THEN "sendJetiBoxMenu"
    ELSE "none"

\* the same, the two requests being recognised only with sub-header 0x01
HandlerBySubHeader(buf) ==
    IF HandlerByPair(buf) \in {"sendTelemetry", "sendJetiBoxMenu"}
           /\ PySlice(buf, 1, 2) # <<1>>
        THEN "none"
        ELSE HandlerByPair(buf)

\* C6 as claimed: a complete CRC-valid frame is classified by the pair
\* (buffer[0], buffer[4]) alone, and the parser is in STATE_HEADER_1 once
\* the frame has been handled.
C6_ClassifiedByPairAlone ==
    [][/\ (Completes /\ CrcMatches(buffer')) => call' = HandlerByPair(buffer')
       /\ (ev' = "complete" /\ pc0' = "recv") => state' = STATE_HEADER_1]_vars

\* C6 as amended: (0x3E, 0x31) selects getChannelData whatever the second
\* header byte is; (0x3D, 0x3A) and (0x3D, 0x3B) select sendTelemetry and
\* sendJetiBoxMenu only when the second header byte is 0x01; every other
\* frame selects no handler; the parser is in STATE_HEADER_1 afterwards.
C6_ClassifiedWithSubHeader ==
    [][/\ (Completes /\ CrcMatches(buffer')) => call' = HandlerBySubHeader(buffer')
       /\ (ev' = "complete" /\ pc0' = "recv") => state' = STATE_HEADER_1]_vars

\* a CRC-valid telemetry request with sub-header 0x03 was completed and no
\* handler was called
C6_Witness ==
    /\ ev = "complete"
    /\ PySlice(buffer, 0, 2) = <<61, 3>>
    /\ PySlice(buffer, 4, 5) = <<58>>
    /\ call = "none"
    /\ state = STATE_HEADER_1
    /\ CrcMatches(buffer)

C8_WrittenFrameHasCRC ==
    [][(wr' /\ ~wr) => (CrcMatches(uart') /\ checkCRC(uart'))]_vars

\* a frame with a non-zero packet id was written
C8_Witness ==
    /\ wr
    /\ uart[4] = 6
    /\ Len(uart) = uart[3]

\* C9: no publication is written twice; taking the data frame leaves the
\* ready flag false; a request after the announcement phase that finds the
\* flag false when it holds the lock writes nothing.
C9_DataFrameServedOnce ==
    /\ \A p \in 1..MaxPubs : served[p] <= 1
    /\ (pc0 = "st_release" /\ sel = "data") => ~exbus_data_ready
    /\ (/\ call = "sendTelemetry"
        /\ pc0 = "recv"
        /\ frame_count > label_frames
        /\ ~ready_at_acquire) => (~wr /\ sel = "none")

\* the first publication was served once and the next request, with no new
\* publication, wrote nothing
C9_Witness ==
    /\ served[1] = 1
    /\ pubs = 1
    /\ call = "sendTelemetry"
    /\ pc0 = "recv"
    /\ frame_count > label_frames
    /\ sel = "none"
    /\ ~wr

\* C10: every access to the shared frames and flags is made with the lock
\* held, and a request after the announcement phase that finds the
\* data-ready flag true when it gets the lock is answered with the data frame.
C10_SharedStateUnderLock ==
    /\ unlocked = {}
    /\ (/\ call = "sendTelemetry"
        /\ pc0 \in {"st_release", "st_write", "recv"}
        /\ frame_count > label_frames
        /\ ready_at_acquire) => sel = "data"

\* the second half of C10 on its own
C10_ServedWhenReadyAtAcquire ==
    (/\ call = "sendTelemetry"
     /\ pc0 \in {"st_release", "st_write", "recv"}
     /\ frame_count > label_frames
     /\ ready_at_acquire) => sel = "data"

\* the written frame w is the stored frame f with the byte at index 3
\* replaced and two bytes appended
SameButIdAndCrc(w, f) ==
    /\ Len(w) = Len(f) + 2
    /\ \A i \in 1..Len(f) : i # 4 => w[i] = f[i]

\* C11: while sendTelemetry holds the lock no publication is in progress,
\* and the data frame it takes is the latest publication; the data frame it
\* writes is that publication, apart from the byte at index 3 and the two
\* appended checksum bytes.
C11_WrittenFrameIsLatestPublication ==
    /\ lock = "core0" => pc1 \in {"p_read", "p_acquire"}
    /\ (lock = "core0" /\ pc0 = "st_release" /\ sel = "data")
          => (pubs >= 1 /\ tel_pub = pubs /\ telemetry = published[pubs])
    /\ (wr /\ sel = "data")
          => (/\ uart_pub = tel_pub
              /\ uart_pub \in 1..pubs
              /\ SameButIdAndCrc(uart, published[uart_pub]))

\* the first publication was taken under the lock, the second one was made
\* after the lock was released, and the first one was written
C11_Witness ==
    /\ wr
    /\ sel = "data"
    /\ uart_pub = 1
    /\ pubs = 2
    /\ published[1] # published[2]

\* the publications taken by sendTelemetry so far
Taken ==
    {p \in 1..MaxPubs : served[p] > 0}
        \cup (IF sel = "data" /\ pc0 \in {"st_release", "st_write"} THEN {tel_pub} ELSE {})

\* a producer that has built a frame can always take its next step towards
\* publishing it, whatever the ready flag says: it waits for nothing but
\* the lock
ProducerNeverWaits ==
    /\ (pc1 = "p_acquire" /\ lock = "free") => ENABLED P_Acquire
    /\ pc1 = "p_write_data" => ENABLED P_WriteData
    /\ pc1 = "p_write_ready" => ENABLED P_WriteReady
    /\ pc1 = "p_release" => ENABLED P_Release

\* C12: the data frame taken by sendTelemetry is always the latest
\* publication, a publication that was overwritten before it was taken is
\* never taken afterwards, and the producer never waits for a frame to be
\* taken.
C12_SingleOverwriteSlot ==
    /\ [][/\ (pc0 = "st_select" /\ sel' = "data") => tel_pub' = pubs
          /\ \A p \in 1..MaxPubs : (p < pubs /\ p \notin Taken) => p \notin Taken']_vars
    /\ []ProducerNeverWaits

\* two publications were made before any data frame was taken; the second
\* one was written and the first one never
C12_Witness ==
    /\ wr
    /\ sel = "data"
    /\ uart_pub = 2
    /\ served[1] = 0
    /\ served[2] = 1

\* sendTelemetry has made its selection for the current request
Selected ==
    /\ call = "sendTelemetry"
    /\ pc0 \in {"st_release", "st_write", "recv"}

\* C13: while frame_count <= label_frames, the request that brought
\* frame_count to k (k = 0 for the first one) is answered with one frame,
\* entry k mod n_labels of dev_labels_units with the request's id and the
\* checksum.
C13_AnnouncementCycles ==
    /\ (Selected /\ frame_count <= label_frames)
          => (sel = "label" /\ telemetry = dev_labels_units[(frame_count % n_labels) + 1])
    /\ (wr /\ sel = "label")
          => SameButIdAndCrc(uart, dev_labels_units[(frame_count % n_labels) + 1])

\* with three entries, the fifth request (k = 4) was answered with entry 1,
\* after the list had wrapped round
C13_Witness ==
    /\ n_labels = 3
    /\ frame_count = 4
    /\ wr
    /\ sel = "label"
    /\ SameButIdAndCrc(uart, dev_labels_units[2])
    /\ uart # AppendCRC(PatchID(dev_labels_units[1], packetID))

\* C14: only the first label_frames requests are answered from the
\* announcement list (request number r brings frame_count to r - 1).
C14_AnnouncementIsFirstN ==
    (Selected /\ sel = "label") => frame_count + 1 <= label_frames

\* C15: once main_thread_running is cleared no context starts another
\* pass of its loop (the producer reads no further sensor), and a stopped
\* context does not hold the lock.
C15_BothContextsStop ==
    /\ [](pc0 = "stopped" => lock # "core0")
    /\ [](pc1 = "crashed" => lock # "core1")
    /\ [][~main_thread_running => sensor_idx' = sensor_idx]_vars

\* C16: a failing read leaves the producer at the top of its loop, ready
\* for the next sensor.
C16_SensorFailureSkipsCycle ==
    pc1 # "crashed"

\* C17: a handler is invoked only for a buffer whose total length byte
\* (index 2) is its payload length byte (index 5) plus 8.
C17_LengthInvariantEnforced ==
    call # "none" => (Len(buffer) >= 6 /\ buffer[3] = buffer[6] + 8)

-----------------------------------------------------------------------------
(* C18: every frame written to the UART is 3B 01 total_len id 3A payload_len
   payload crc_lo crc_hi, where total_len is the number of bytes written,
   payload_len is total_len - 8 and is the length of the embedded EX packet
   (the bytes from the 0x0F identifier up to the CRC16) *)

\* the bytes of a written frame between the payload length and the CRC16
EmbeddedEx(w) == SubSeq(w, 7, Len(w) - 2)

C18_WrittenFrameLayout ==
    wr => /\ Len(uart) > 8
          /\ uart[1] = 59
          /\ uart[2] = 1
          /\ uart[3] = Len(uart)
          /\ PySlice(uart, 3, 4) = packetID
          /\ uart[5] = 58
          /\ uart[6] = uart[3] - 8
          /\ uart[6] = Len(EmbeddedEx(uart))
          /\ EmbeddedEx(uart)[1] = 15
          /\ PyLast2(uart) = to_bytes_2_little(crc16_ccitt(PyDropLast2(uart),
                                                          Len(uart) - 2))

\* a data frame and a label frame of different lengths have both been written
C18_Witness ==
    /\ wr
    /\ sel = "data"
    /\ uart[3] = Len(uart)
    /\ uart[6] = Len(EmbeddedEx(uart))
    /\ Len(uart) # Len(dev_labels_units[1]) + 2

-----------------------------------------------------------------------------
(* C19: in every EX packet built by ex_frame (text and data) with a 2-byte
   product id and a 2-byte device id, byte 0 is 0x0F, the top two bits of
   byte 1 are the frame type and its low six bits are the body length plus 6,
   which is the number of bytes that follow byte 1 (serial number, reserved
   byte, body, CRC8) *)
C19_HeaderTypeAndLength ==
    (ex_returned # <<>> /\ Len(productID) = 2 /\ Len(deviceID) = 2)
        => /\ ex_returned[1] = 15
           /\ ex_returned[2] \div 64 = ex_type
           /\ ex_returned[2] % 64 = Len(ex_body) + 6
           /\ ex_returned[2] % 64 = Len(ex_returned) - 2
           /\ SubSeq(ex_returned, 3, 6) = productID \o deviceID
           /\ ex_returned[7] = 0
           /\ SubSeq(ex_returned, 8, Len(ex_returned) - 1) = ex_body

\* a data packet for a negative value, with 2-byte ids
C19_Witness ==
    /\ ex_type = 1
    /\ Len(productID) = 2
    /\ Len(deviceID) = 2
    /\ ex_body = Data("VOLT", 0 - MaxValue)
    /\ ex_returned[2] = 64 + Len(ex_body) + 6
    /\ Len(ex_returned) = Len(ex_body) + 8

-----------------------------------------------------------------------------
(* C20: the last byte of every packet returned by ex_frame is the crc8 of
   the bytes from index 1 up to that last byte, the 0x0F identifier left
   out; with any single bit of packet[1:] flipped that check fails *)

\* the reader's check: the last byte against the crc8 of packet[1:-1]
Crc8Checks(pkt) ==
    pkt[Len(pkt)] = crc8_viper(SubSeq(pkt, 2, Len(pkt) - 1), Len(pkt) - 2)

C20_Crc8RoundTripAndBitFlip ==
    /\ ex_returned # <<>> => Crc8Checks(ex_returned)
    /\ ex_flipped # <<>> => ~Crc8Checks(ex_flipped)

\* a bit of the body was flipped, the CRC byte arrived as sent
C20_Witness ==
    /\ ex_flipped # <<>>
    /\ ex_type = 1
    /\ ex_flipped[Len(ex_flipped)] = ex_returned[Len(ex_returned)]
    /\ ex_flipped[Len(ex_flipped) - 1] # ex_returned[Len(ex_returned) - 1]
    /\ Crc8Checks(ex_returned)
    /\ ~Crc8Checks(ex_flipped)

-----------------------------------------------------------------------------
(* C21: for every byte sequence b, checkCRC accepts b followed by
   crc16_ccitt(b) as two bytes, low byte first, and rejects that result with
   any single bit flipped *)
C21_Crc16RoundTripAndBitFlip ==
    /\ crc_framed # <<>> =>
            /\ crc_framed = crc_in \o to_bytes_2_little(crc16_out)
            /\ checkCRC(crc_framed)
    /\ crc_wire # <<>> => ~checkCRC(crc_wire)

\* a bit of the sequence itself was flipped, the two CRC bytes arrived as sent
C21_Witness ==
    /\ crc_in = <<1, 0, 255>>
    /\ crc_wire # <<>>
    /\ PyLast2(crc_wire) = PyLast2(crc_framed)
    /\ crc_wire[2] = 128
    /\ checkCRC(crc_framed)
    /\ ~checkCRC(crc_wire)

-----------------------------------------------------------------------------
(* C22: crc16_ccitt(packet, length) is the reference computation "register
   starts at 0; per byte XOR into the register, then 8 times: if the lowest
   bit is set (reg >> 1) ^ 0x8408 else reg >> 1", its result lies in
   0..0xFFFF, and it is 0x8198 for 3D 01 08 06 3A 00 and 0xE24F for the
   38-byte channel data example *)

\* the reference computation: shift[reg, n] is the register after n of the 8
\* shifts, bytes[reg, lo, hi] the register after the bytes lo..hi in order
Crc16Reference(b) ==
    LET shift[reg \in Nat, n \in 0..8] ==
            IF n = 0 THEN reg
            ELSE shift[IF reg % 2 = 1 THEN BitXor(reg \div 2, 33800)
                       ELSE reg \div 2, n - 1]
        bytes[reg \in Nat, lo \in Nat, hi \in Nat] ==
            IF lo > hi THEN reg
            ELSE IF lo = hi THEN shift[BitXor(reg, b[lo]), 8]
            ELSE bytes[bytes[reg, lo, (lo + hi) \div 2], ((lo + hi) \div 2) + 1, hi]
    IN  bytes[0, 1, Len(b)]

C22_Crc16IsReference ==
    crc16_out # -1 =>
        /\ crc16_out = Crc16Reference(crc_in)
        /\ crc16_out \in 0..65535
        /\ crc_in = TelemetryRequestExample => crc16_out = 33176
        /\ crc_in = ChannelDataExample => crc16_out = 57935

\* the checksum of the 38-byte channel data example has been computed
C22_Witness ==
    /\ crc_in = ChannelDataExample
    /\ Len(crc_in) = 38
    /\ crc16_out = 57935

-----------------------------------------------------------------------------
(* C23: crc8(packet) and crc8_viper(packet, len(packet)) return the same
   value for every byte sequence, the MSB-first CRC8 with polynomial 0x07 and
   initial value 0 (8 bits wide), and both return 0xF4 for
   4C A1 A8 5D 55 00 11 E8 23 21 1B 00 *)

\* the MSB-first CRC8 with polynomial x^8 + x^2 + x + 1 (0x107) as a long
\* division: the bits of b, highest bit first, followed by eight zero bits,
\* are shifted into the remainder; shiftin[r, x, n] is the remainder after the
\* top n bits of the byte x, bytes[r, lo, hi] after the bytes lo..hi
Crc8Reference(b) ==
    LET padded == b \o <<0>>
        shiftin[r \in Nat, x \in Nat, n \in 0..8] ==
            IF n = 0 THEN r
            ELSE LET before == shiftin[r, x, n - 1]
                     bit    == (x \div (2 ^ (8 - n))) % 2
                     next   == 2 * before + bit
                 IN  IF next >= 256 THEN BitXor(next, 263) ELSE next
        bytes[r \in Nat, lo \in Nat, hi \in Nat] ==
            IF lo > hi THEN r
            ELSE IF lo = hi THEN shiftin[r, padded[lo], 8]
            ELSE bytes[bytes[r, lo, (lo + hi) \div 2], ((lo + hi) \div 2) + 1, hi]
    IN  bytes[0, 1, Len(padded)]

C23_Crc8VariantsAgree ==
    crc8_out # -1 =>
        /\ crc8_out = crc8_viper_out
        /\ crc8_out = Crc8Reference(crc_in)
        /\ crc8_out \in 0..255
        /\ crc_in = DataTelemetryExample => (crc8_out = 244 /\ crc8_viper_out = 244)

\* both functions have been called on the documented example
C23_Witness ==
    /\ crc_in = DataTelemetryExample
    /\ crc8_out = 244
    /\ crc8_viper_out = 244

-----------------------------------------------------------------------------
(* C24: whenever the scaled and rounded value handed from Ex.Data to
   EncodeValue is 0, negative inputs that round to 0 included, the sign bit
   (top bit) of the emitted most significant byte is 0, for every data type
   and precision *)

\* the most significant byte of the encoded value: the last byte emitted
MsByte(out) == out[Len(out)]

C24_ZeroHasSignZero ==
    (enc_out # <<>> /\ enc_scaled = 0) => MsByte(enc_out) \div 128 = 0

\* -0.4 at precision 0 has been encoded: it rounds to 0
C24_Witness ==
    /\ enc_in.num = -4
    /\ enc_in.den = 10
    /\ enc_in.precision = 0
    /\ enc_in.data_type = 1
    /\ enc_out # <<>>
    /\ enc_scaled = 0
    /\ MsByte(enc_out) = 0

-----------------------------------------------------------------------------
(* C25: EncodeValue packs sign and magnitude: for the data types 0, 1, 4, 5
   and 8 and every scaled value in range, the value takes 1, 2, 3, 3 and 4
   bytes, the top bit of the last byte is 1 iff the value is negative, the
   next two bits are the precision, and the remaining bits, read
   little-endian, are the absolute value of the scaled value *)

\* the largest magnitude of a data type (EncodeValue's docstring)
MaxMagnitude(dataType) ==
    CASE dataType = 0 -> 31
      [] dataType = 1 -> 8191
      [] dataType \in {4, 5} -> 2097151
      [] dataType \in {8, 9} -> 536870911

\* the bytes of the value: the entry without its leading id/type byte
ValueBytes(out) == Tail(out)

\* the bits of the value below sign and precision, read little-endian
MagnitudeBits(bytes) ==
    from_bytes_little([bytes EXCEPT ![Len(bytes)] = @ % 32])

C25_SignMagnitude ==
    (/\ enc_out # <<>>
     /\ enc_in.data_type \in {0, 1, 4, 5, 8}
     /\ Abs(enc_scaled) <= MaxMagnitude(enc_in.data_type))
        => /\ Len(ValueBytes(enc_out)) =
                    (CASE enc_in.data_type = 0 -> 1
                       [] enc_in.data_type = 1 -> 2
                       [] enc_in.data_type \in {4, 5} -> 3
                       [] enc_in.data_type = 8 -> 4)
           /\ (MsByte(enc_out) \div 128 = 1) <=> (enc_scaled < 0)
           /\ (MsByte(enc_out) \div 32) % 4 = enc_in.precision
           /\ MagnitudeBits(ValueBytes(enc_out)) = Abs(enc_scaled)

-----------------------------------------------------------------------------
(* C26: encoding a value whose scaled magnitude does not fit the magnitude
   bits of its data type (more than 31, 8191, 2097151, 536870911 for the
   data types 0, 1, 4/5, 8) ends in a ValueOutOfRange error and emits no
   bytes: no truncated or wrapped value is ever emitted *)

\* the call of Ex.Data has ended, by a return or by an exception
EncodeEnded == enc_out # <<>> \/ enc_error # "none"

C26_OutOfRangeRaises ==
    (/\ EncodeEnded
     /\ enc_in.data_type \in {0, 1, 4, 5, 8}
     /\ Abs(enc_scaled) > MaxMagnitude(enc_in.data_type))
        => (enc_error = "ValueOutOfRange" /\ enc_out = <<>>)

-----------------------------------------------------------------------------
(* C27: building an EX packet header for a body with which the packet would
   be longer than 29 bytes fails with LengthOverflow; so in every header
   emitted, length + 6 fits the six length bits and the two type bits of the
   type/length byte are the frame type *)

\* the length of the packet that a body of the given length makes: the
\* 8 bytes of header and crc8 around the body
PacketLength(length) == length + 8

C27_HeaderLengthChecked ==
    bld_call.fn = "Header" =>
        /\ PacketLength(bld_call.length) > MaxExPacket
                => (bld_error = "LengthOverflow" /\ bld_out = <<>>)
        /\ bld_out # <<>> =>
                /\ bld_call.length + 6 < 64
                /\ bld_out[2] \div 64 = bld_call.frametype

-----------------------------------------------------------------------------
(* C28: Ex.Message(message, msg_class) returns a body of one message type
   byte, one byte with msg_class in its top 3 bits and the length of the
   given text in its low 5 bits, and the bytes of the given text *)
C28_MessageBody ==
    bld_call.fn = "Message" =>
        /\ bld_error = "none"
        /\ Len(bld_out) = 2 + Len(bld_call.message)
        /\ bld_out[2] \div 32 = bld_call.msg_class
        /\ bld_out[2] % 32 = Len(bld_call.message)
        /\ SubSeq(bld_out, 3, Len(bld_out)) = bld_call.message

-----------------------------------------------------------------------------
(* C29: ExBusPacketDecoder.decode extracts from any well-formed frame
   message_length = byte 2, packet_id = byte 3 and length_data = byte 5 as
   unsigned values 0..255, the type from the pair (byte 0, byte 4), and crc
   as the last two bytes read little-endian; 3D 01 08 06 3A 00 98 81 gives
   Master Packet, 8, 6, Telemetry request, 0, 0x8198 *)
C29_DecodeExtractsFields ==
    (dec_out.decoded \/ dec_out.error # "none") =>
        /\ dec_out.decoded
        /\ dec_out.message_length = unpack_B(dec_packet[3])
        /\ dec_out.packet_id = unpack_B(dec_packet[4])
        /\ dec_out.length_data = unpack_B(dec_packet[6])
        /\ dec_out.type = data_identifiers[<<dec_packet[1], dec_packet[5]>>]
        /\ dec_out.crc = dec_packet[Len(dec_packet) - 1]
                            + 256 * dec_packet[Len(dec_packet)]
        /\ dec_packet = <<61, 1, 8, 6, 58, 0, 152, 129>> =>
                /\ dec_out.source = "Master Packet"
                /\ dec_out.message_length = 8
                /\ dec_out.packet_id = 6
                /\ dec_out.type = "Telemetry request"
                /\ dec_out.length_data = 0
                /\ dec_out.crc = 33176

-----------------------------------------------------------------------------
(* C30: the producer reads the sensors in strict cyclic list order: iteration
   k (k = 0, 1, ...) of its loop reads sensor k mod n of the n sensors, so
   between two consecutive reads of one sensor every other sensor is read
   exactly once, and every n consecutive iterations read every sensor (none
   is passed over) *)

SensorSet == {Sensors[i] : i \in 1..Len(Sensors)}

C30_SensorsReadRoundRobin ==
    /\ \A k \in 1..Len(reads) : reads[k] = Sensors[((k - 1) % Len(Sensors)) + 1]
    /\ \A i, j \in 1..Len(reads) :
            (/\ i < j
             /\ reads[i] = reads[j]
             /\ \A x \in (i + 1)..(j - 1) : reads[x] # reads[i])
                => \A other \in SensorSet \ {reads[i]} :
                        Cardinality({x \in (i + 1)..(j - 1) : reads[x] = other}) = 1
    /\ \A k \in 1..Len(reads) :
            k + Len(Sensors) - 1 <= Len(reads)
                => {reads[x] : x \in k..(k + Len(Sensors) - 1)} = SensorSet

\* the first sensor has been read a second time, after the other one
C30_Witness ==
    /\ Len(reads) = 3
    /\ reads[1] = Sensors[1]
    /\ reads[2] = Sensors[2]
    /\ reads[3] = Sensors[1]
    /\ pubs = 2

-----------------------------------------------------------------------------
(* C31: the device writes to the UART only inside an answer slot: a write
   happens only while a complete frame with a valid CRC16 that begins 3D 01
   and has 3A at index 4 is being handled, and once per such frame at most;
   channel data frames, JetiBox requests, frames with sub-header 03 and
   dropped frames cause no write and leave frame_count, the ready flags and
   the prebuilt frames as they are *)

\* the step that executes serial.write (line 143)
WriteStep == pc0 = "st_write" /\ pc0' = "recv"

\* a pass of the receive loop (no step of the producer) that does not call
\* sendTelemetry
PassWithoutRequest ==
    /\ pc0 = "recv"
    /\ <<pc1, sensor_idx>>' = <<pc1, sensor_idx>>
    /\ call' # "sendTelemetry"

C31_WriteOnlyInAnswerSlot ==
    [][/\ (uart' # uart \/ (wr' /\ ~wr)) => WriteStep
       /\ WriteStep =>
            /\ ~wr
            /\ call = "sendTelemetry"
            /\ Len(buffer) = packet_length
            /\ CrcMatches(buffer)
            /\ PySlice(buffer, 0, 2) = <<61, 1>>
            /\ PySlice(buffer, 4, 5) = <<58>>
       /\ frame_count' # frame_count => call = "sendTelemetry"
       /\ PassWithoutRequest =>
            /\ pc0' = "recv"
            /\ ~wr'
            /\ UNCHANGED <<uart, frame_count, exbus_data_ready,
                           exbus_device_ready, dev_labels_units, exbus_data>>]_vars

\* after an answered request, a complete frame 3D 03 .. 3A with a valid
\* CRC16 was received and no handler was called
C31_Witness ==
    /\ ev = "complete"
    /\ PySlice(buffer, 0, 2) = <<61, 3>>
    /\ PySlice(buffer, 4, 5) = <<58>>
    /\ CrcMatches(buffer)
    /\ call = "none"
    /\ ~wr
    /\ uart # <<>>
    /\ frame_count >= 0

-----------------------------------------------------------------------------
(* C32: sendTelemetry never modifies the stored prebuilt frames: at all times
   every entry of ex.dev_labels_units and the frame ex.exbus_data hold the
   placeholder id 0x00 at index 3 and no CRC trailer, no step of
   sendTelemetry changes them, and each written frame differs from the stored
   frame it was taken from only at index 3 and by the two appended CRC
   bytes *)

\* a frame as exbus_frame builds it: id 0 at index 3, and two bytes short of
\* its declared length (the CRC16 is not there)
StoredForm(f) == f[4] = 0 /\ Len(f) = f[3] - 2 /\ f[6] = Len(f) - 6

C32_StoredFramesUntouched ==
    /\ [](/\ \A i \in 1..Len(dev_labels_units) :
                StoredForm(dev_labels_units[i])
           /\ (exbus_data # <<>> =>
                (StoredForm(exbus_data) /\ exbus_data = published[slot_pub]))
           /\ ((wr /\ sel = "label") =>
                SameButIdAndCrc(uart, dev_labels_units[(frame_count % n_labels) + 1]))
           /\ ((wr /\ sel = "data") =>
                SameButIdAndCrc(uart, published[uart_pub])))
    /\ [][(pc0 # "recv" /\ pc0' # pc0 /\ pc1' = pc1)
              => UNCHANGED <<dev_labels_units, exbus_data>>]_vars

\* a data frame was written with the request's id 6, and the stored frame
\* it was taken from is still in ex.exbus_data with id 0
C32_Witness ==
    /\ wr
    /\ sel = "data"
    /\ slot_pub = uart_pub
    /\ uart[4] = 6
    /\ exbus_data[4] = 0
    /\ Len(uart) = Len(exbus_data) + 2

-----------------------------------------------------------------------------
(* C33: no publication is lost except by overwrite: the frame sender sets
   exbus_data_ready to false only inside its critical section, in the step in
   which it takes the frame that it then writes, and the request that took a
   data frame ends with that frame written; whenever exbus_data_ready is
   true, ex.exbus_data holds a completely built frame, the latest
   publication *)

\* exbus_data_ready goes from true to false
FlagCleared == exbus_data_ready /\ ~exbus_data_ready'

C33_ConsumedOnlyWhenTaken ==
    /\ [](/\ exbus_data_ready =>
               (/\ pubs >= 1
                /\ slot_pub = pubs
                /\ exbus_data = published[pubs]
                /\ StoredForm(exbus_data))
          /\ ((pc0 \in {"st_release", "st_write"} /\ sel = "data") =>
               (/\ tel_pub \in 1..pubs
                /\ telemetry = published[tel_pub]
                /\ served[tel_pub] = 0)))
    /\ [][/\ FlagCleared =>
               (/\ pc0 = "st_select"
                /\ lock = "core0"
                /\ lock' = "core0"
                /\ sel' = "data"
                /\ telemetry' = exbus_data
                /\ tel_pub' = slot_pub)
          /\ (pc0 = "st_release" /\ sel = "data" /\ pc0' # pc0) => pc0' = "st_write"
          /\ (pc0 = "st_write" /\ sel = "data" /\ pc0' # pc0) =>
               (/\ wr'
                /\ uart_pub' = tel_pub
                /\ served'[tel_pub] = 1
                /\ SameButIdAndCrc(uart', published[tel_pub]))]_vars

\* the producer published a second frame while the sender, holding the first
\* one with the flag cleared, had not written it yet; the first was then written
C33_Witness ==
    /\ wr
    /\ sel = "data"
    /\ uart_pub = 1
    /\ pubs = 2
    /\ exbus_data_ready
    /\ served = [p \in 1..MaxPubs |-> IF p = 1 THEN 1 ELSE 0]

-----------------------------------------------------------------------------
(* C34: the announcement phase is never re-entered: frame_count goes up by
   exactly one on every telemetry request, also on a request that sends
   nothing, and changes nowhere else; once it is above label_frames it stays
   above, and no request handled with frame_count > label_frames is answered
   with a device/label announcement frame *)

\* the first step of sendTelemetry is taken
RequestCounted == pc0 = "st_read_dev" /\ pc0' # pc0

C34_AnnouncementPhaseNotReentered ==
    /\ []((frame_count > label_frames) => sel # "label")
    /\ [][/\ RequestCounted => frame_count' = frame_count + 1
          /\ frame_count' # frame_count => RequestCounted
          /\ frame_count > label_frames => frame_count' > label_frames
          /\ (pc0 = "st_write" /\ pc0' # pc0 /\ frame_count > label_frames)
                => (sel = "data" /\ uart_pub' >= 1)]_vars

\* two requests past the announcement phase: the last one sent nothing and
\* was counted all the same
C34_Witness ==
    /\ frame_count = label_frames + 2
    /\ call = "sendTelemetry"
    /\ pc0 = "recv"
    /\ sel = "none"
    /\ exbus_device_ready
    /\ ~wr

-----------------------------------------------------------------------------
(* Start-up with Jeti/Ex_optimized.py as the producer: Ex.__init__ (lines
   39-72) assigns exbus_data_ready and exbus_device_ready, but neither
   n_labels nor dev_labels_units; run_forever assigns them at lines 97-104
   while ExBus_optimized.run_forever is already answering requests *)

\* Ex_optimized.__init__ has run, Ex_optimized.run_forever is at line 97
StartupPending ==
    /\ exbus_device_ready = FALSE
    /\ dev_labels_units = <<>>
    /\ n_labels = 0
    /\ ex_attrs = {}
    /\ pc1 = "eo_acquire"

InitStartup ==
    /\ InitSensors
    /\ InitCodec
    /\ InitLib
    /\ InitConstructed
    /\ StartupPending
    /\ feed = [phase |-> "free", frame |-> <<>>, pos |-> 0, clean |-> FALSE]
    /\ ndispatch = 0
    /\ right = TRUE

\* Ex_optimized.py line 97: self.lock.acquire()
EO_Acquire ==
    /\ pc1 = "eo_acquire"
    /\ lock = "free"
    /\ lock' = "core1"
    /\ pc1' = "eo_new_list"
    /\ UNCHANGED <<sensor_idx, exbus_data_local, pubs, published, reads>>
    /\ UNCHANGED unlocked
    /\ UNCHANGED sharedvars
    /\ UNCHANGED startvars
    /\ UNCHANGED core0vars
    /\ UNCHANGED envvars
    /\ UNCHANGED mainvars
    /\ UNCHANGED sensorvars
    /\ UNCHANGED codecvars
    /\ UNCHANGED <<crcvars, encvars, buildvars, decvars, oldvars>>

\* Ex_optimized.py line 98: self.dev_labels_units = list()
EO_NewList ==
    /\ pc1 = "eo_new_list"
    /\ dev_labels_units' = <<>>
    /\ ex_attrs' = ex_attrs \cup {"dev_labels_units"}
    /\ unlocked' = unlocked \cup Access("core1", "dev_labels_units")
    /\ pc1' = "eo_append"
    /\ UNCHANGED <<sensor_idx, exbus_data_local, pubs, published, reads>>
    /\ UNCHANGED lock
    /\ UNCHANGED <<exbus_data, exbus_data_ready, exbus_device_ready, n_labels,
                   slot_pub>>
    /\ UNCHANGED raised
    /\ UNCHANGED core0vars
    /\ UNCHANGED envvars
    /\ UNCHANGED mainvars
    /\ UNCHANGED sensorvars
    /\ UNCHANGED codecvars
    /\ UNCHANGED <<crcvars, encvars, buildvars, decvars, oldvars>>

\* Ex_optimized.py lines 99-101: one pass of the loop over the labels
EO_Append ==
    /\ pc1 = "eo_append"
    /\ LET label == labels[Len(dev_labels_units) + 1]
       IN  dev_labels_units' =
               Append(dev_labels_units, exbus_frame(ex_frame(0, Text(label))))
    /\ unlocked' = unlocked \cup Access("core1", "dev_labels_units")
    /\ pc1' = IF Len(dev_labels_units') = Len(labels) THEN "eo_n_labels"
                                                       ELSE "eo_append"
    /\ UNCHANGED <<sensor_idx, exbus_data_local, pubs, published, reads>>
    /\ UNCHANGED lock
    /\ UNCHANGED <<exbus_data, exbus_data_ready, exbus_device_ready, n_labels,
                   slot_pub>>
    /\ UNCHANGED startvars
    /\ UNCHANGED core0vars
    /\ UNCHANGED envvars
    /\ UNCHANGED mainvars
    /\ UNCHANGED sensorvars
    /\ UNCHANGED codecvars
    /\ UNCHANGED <<crcvars, encvars, buildvars, decvars, oldvars>>

\* Ex_optimized.py line 102: self.n_labels = len(labels)
EO_SetNLabels ==
    /\ pc1 = "eo_n_labels"
    /\ n_labels' = Len(labels)
    /\ ex_attrs' = ex_attrs \cup {"n_labels"}
    /\ unlocked' = unlocked \cup Access("core1", "n_labels")
    /\ pc1' = "eo_ready"
    /\ UNCHANGED <<sensor_idx, exbus_data_local, pubs, published, reads>>
    /\ UNCHANGED lock
    /\ UNCHANGED <<exbus_data, exbus_data_ready, exbus_device_ready,
                   dev_labels_units, slot_pub>>
    /\ UNCHANGED raised
    /\ UNCHANGED core0vars
    /\ UNCHANGED envvars
    /\ UNCHANGED mainvars
    /\ UNCHANGED sensorvars
    /\ UNCHANGED codecvars
    /\ UNCHANGED <<crcvars, encvars, buildvars, decvars, oldvars>>

\* Ex_optimized.py line 103: self.exbus_device_ready = True
EO_SetReady ==
    /\ pc1 = "eo_ready"
    /\ exbus_device_ready' = TRUE
    /\ unlocked' = unlocked \cup Access("core1", "exbus_device_ready")
    /\ pc1' = "eo_release"
    /\ UNCHANGED <<sensor_idx, exbus_data_local, pubs, published, reads>>
    /\ UNCHANGED lock
    /\ UNCHANGED <<exbus_data, exbus_data_ready, dev_labels_units, n_labels,
                   slot_pub>>
    /\ UNCHANGED startvars
    /\ UNCHANGED core0vars
    /\ UNCHANGED envvars
    /\ UNCHANGED mainvars
    /\ UNCHANGED sensorvars
    /\ UNCHANGED codecvars
    /\ UNCHANGED <<crcvars, encvars, buildvars, decvars, oldvars>>

\* Ex_optimized.py line 104: self.lock.release(); the loop of line 107 follows
EO_Release ==
    /\ pc1 = "eo_release"
    /\ lock' = "free"
    /\ pc1' = "p_read"
    /\ UNCHANGED <<sensor_idx, exbus_data_local, pubs, published, reads>>
    /\ UNCHANGED unlocked
    /\ UNCHANGED sharedvars
    /\ UNCHANGED startvars
    /\ UNCHANGED core0vars
    /\ UNCHANGED envvars
    /\ UNCHANGED mainvars
    /\ UNCHANGED sensorvars
    /\ UNCHANGED codecvars
    /\ UNCHANGED <<crcvars, encvars, buildvars, decvars, oldvars>>

\* ExBus_optimized.py lines 123-124 while the Ex object has no attribute
\* n_labels: line 124 raises AttributeError, which nothing in sendTelemetry
\* or run_forever catches
ST_ReadNLabelsFails ==
    /\ pc0 = "st_read_data"
    /\ "n_labels" \notin ex_attrs
    /\ data_ready_local' = exbus_data_ready
    /\ unlocked' = unlocked \cup Access("core0", "exbus_data_ready")
    /\ raised' = "AttributeError"
    /\ pc0' = "raised"
    /\ UNCHANGED <<state, buffer, packet_length, channel, packetID, frame_count,
                   dev_ready_local, n_labels_local, telemetry, uart, ev, call,
                   wr, sel, ready_at_acquire, tel_pub, uart_pub, served>>
    /\ UNCHANGED lock
    /\ UNCHANGED sharedvars
    /\ UNCHANGED core1vars
    /\ UNCHANGED ex_attrs
    /\ UNCHANGED envvars
    /\ UNCHANGED mainvars
    /\ UNCHANGED sensorvars
    /\ UNCHANGED codecvars
    /\ UNCHANGED <<crcvars, encvars, buildvars, decvars, oldvars>>

NextStartup ==
    \/ Next
    \/ ST_ReadNLabelsFails
    \/ EO_Acquire
    \/ EO_NewList
    \/ EO_Append
    \/ EO_SetNLabels
    \/ EO_SetReady
    \/ EO_Release

SpecStartup == InitStartup /\ [][NextStartup]_vars

\* C35: with Ex_optimized as the producer, sendTelemetry never reads
\* ex.n_labels or ex.dev_labels_units before the producer has assigned them:
\* no request raises an error, and a request handled before the announcement
\* list is ready sends nothing.
C35_NoReadBeforeAssigned ==
    /\ raised = "none"
    /\ pc0 \in {"st_acquire", "st_select", "st_release", "st_write"}
          => "n_labels" \in ex_attrs
    /\ (pc0 \in {"st_release", "st_write"} /\ sel = "label")
          => "dev_labels_units" \in ex_attrs
    /\ (call = "sendTelemetry" /\ pc0 = "recv" /\ ~exbus_device_ready)
          => (sel = "none" /\ ~wr)

-----------------------------------------------------------------------------
(* Jeti/ExBus.py: the receive loop of ExBus.run_forever, lines 134-234.
   Each byte read is turned into its two-character hexadecimal string cx and
   self.exbusBuffer, a list from line 149 on, is extended by the characters
   of cx.  A character is modelled by its code point. *)

\* the character of the hexadecimal digit d
HexChar(d) == IF d < 10 THEN 48 + d ELSE 87 + d

\* the value of the hexadecimal digit character ch
HexVal(ch) == IF ch <= 57 THEN ch - 48 ELSE ch - 87

\* line 140: hexlify(bytes(c)).decode()
hexlify_decode(c) == <<HexChar(c \div 16), HexChar(c % 16)>>

\* int(s, 16) for a string of two hexadecimal digits
int16(s) == 16 * HexVal(s[1]) + HexVal(s[2])

\* line 195: the largest packet length the check lets through
OldMaxLength == 56

\* line 190, int(hexlify(self.exbusBuffer[2]), 16): element 2 of the list is
\* one character, the first digit of the second header byte; hexlify of a
\* str gives its code point in hexadecimal where str has the buffer
\* protocol (MicroPython) and raises TypeError where it has not
HexlifyOfStr == {"value", "TypeError"}

\* lines 195-200: the state left by the length check; the assignment of line
\* 200 follows the if statement unconditionally
StateAfterLength(length) ==
    LET checked == IF length > OldMaxLength THEN STATE_HEADER_1 ELSE STATE_LENGTH
        line200 == STATE_END
    IN  line200

\* bytes sent by the receiver (master) to the loop, by parser state
OldRxBytes ==
    CASE old_state = STATE_HEADER_1 -> {0, 61, 62}
      [] old_state = STATE_HEADER_2 -> {0, 1, 3}
      [] old_state = STATE_LENGTH   -> {8, 56, 57, 255}
      [] old_state = STATE_END      -> IF Len(exbusBuffer) = 6 THEN {0, 6} ELSE {0}

\* lines 145-154
OldRxHeader1(c) ==
    /\ old_error = "none"
    /\ old_state = STATE_HEADER_1
    /\ LET cx == hexlify_decode(c)
       IN  IF cx \in {<<51, 101>>, <<51, 100>>}
              THEN /\ exbusBuffer' = cx
                   /\ old_state' = STATE_HEADER_2
                   /\ old_ev' = "header1"
              ELSE /\ old_ev' = "skip"
                   /\ UNCHANGED <<exbusBuffer, old_state>>
    /\ UNCHANGED <<old_packet_length, old_error>>
    /\ UNCHANGED <<lock, unlocked>>
    /\ UNCHANGED core0vars
    /\ UNCHANGED core1vars
    /\ UNCHANGED sharedvars
    /\ UNCHANGED envvars
    /\ UNCHANGED mainvars
    /\ UNCHANGED sensorvars
    /\ UNCHANGED codecvars
    /\ UNCHANGED <<crcvars, encvars, buildvars, decvars, startvars>>

\* lines 156-173
OldRxHeader2(c) ==
    /\ old_error = "none"
    /\ old_state = STATE_HEADER_2
    /\ LET cx == hexlify_decode(c)
       IN  IF cx \in {<<48, 49>>, <<48, 51>>}
              THEN /\ exbusBuffer' = exbusBuffer \o cx
                   /\ old_state' = STATE_LENGTH
                   /\ old_ev' = "header2"
              ELSE /\ old_state' = STATE_HEADER_1
                   /\ old_ev' = "reset"
                   /\ UNCHANGED exbusBuffer
    /\ UNCHANGED <<old_packet_length, old_error>>
    /\ UNCHANGED <<lock, unlocked>>
    /\ UNCHANGED core0vars
    /\ UNCHANGED core1vars
    /\ UNCHANGED sharedvars
    /\ UNCHANGED envvars
    /\ UNCHANGED mainvars
    /\ UNCHANGED sensorvars
    /\ UNCHANGED codecvars
    /\ UNCHANGED <<crcvars, encvars, buildvars, decvars, startvars>>

\* lines 175-200
OldRxLength(c, outcome) ==
    /\ old_error = "none"
    /\ old_state = STATE_LENGTH
    /\ exbusBuffer' = exbusBuffer \o hexlify_decode(c)
    /\ old_ev' = "length"
    /\ IF outcome = "value"
          THEN /\ old_packet_length' = int16(hexlify_decode(exbusBuffer'[3]))
               /\ old_state' = StateAfterLength(old_packet_length')
               /\ UNCHANGED old_error
          ELSE /\ old_error' = "TypeError"
               /\ UNCHANGED <<old_packet_length, old_state>>
    /\ UNCHANGED <<lock, unlocked>>
    /\ UNCHANGED core0vars
    /\ UNCHANGED core1vars
    /\ UNCHANGED sharedvars
    /\ UNCHANGED envvars
    /\ UNCHANGED mainvars
    /\ UNCHANGED sensorvars
    /\ UNCHANGED codecvars
    /\ UNCHANGED <<crcvars, encvars, buildvars, decvars, startvars>>

\* lines 202-234; checkCRC (lines 405-421) calls CRC16.crc16_ccitt with one
\* argument, which raises TypeError
OldRxEnd(c) ==
    /\ old_error = "none"
    /\ old_state = STATE_END
    /\ exbusBuffer' = exbusBuffer \o hexlify_decode(c)
    /\ IF Len(exbusBuffer') = old_packet_length
          THEN /\ old_error' = "TypeError"
               /\ old_ev' = "checkCRC"
          ELSE /\ old_ev' = "body"
               /\ UNCHANGED old_error
    /\ UNCHANGED <<old_packet_length, old_state>>
    /\ UNCHANGED <<lock, unlocked>>
    /\ UNCHANGED core0vars
    /\ UNCHANGED core1vars
    /\ UNCHANGED sharedvars
    /\ UNCHANGED envvars
    /\ UNCHANGED mainvars
    /\ UNCHANGED sensorvars
    /\ UNCHANGED codecvars
    /\ UNCHANGED <<crcvars, encvars, buildvars, decvars, startvars>>

NextOldRx ==
    \/ \E c \in OldRxBytes : OldRxHeader1(c)
    \/ \E c \in OldRxBytes : OldRxHeader2(c)
    \/ \E c \in OldRxBytes : \E outcome \in HexlifyOfStr : OldRxLength(c, outcome)
    \/ \E c \in OldRxBytes : OldRxEnd(c)

SpecOldRx == Init /\ [][NextOldRx]_vars

\* the length byte the receiver sent, read back from the characters in the list
SentLength(buf) == int16(<<buf[5], buf[6]>>)

\* C36: in the receive loop of Jeti/ExBus.py, a length byte that declares a
\* packet length greater than 56 resets the parser to STATE_HEADER_1, and the
\* bytes that follow are not accumulated as the body of that frame.
C36_LongLengthResets ==
    (Len(exbusBuffer) >= 6 /\ SentLength(exbusBuffer) > OldMaxLength)
        => (old_state = STATE_HEADER_1 /\ Len(exbusBuffer) = 6)

====
